---- MODULE Spec2Model ----
(***************************************************************************)
(* Frame graph, per-frame submission loop and compute-dispatch nodes of    *)
(* the fractalia2d renderer.                                               *)
(*                                                                         *)
(* The specifications share the variables of this module:                  *)
(*   Spec          FrameGraph: addNode / compile / reset / execute         *)
(*   SpecCycles    FrameGraph: compile / reset on synthetic cyclic graphs  *)
(*   SpecFrame     VulkanRenderer::drawFrameModular and the services it    *)
(*                 drives (director, submission, frame-state manager)      *)
(*   SpecFrameAnyGraph  the same loop over graphs of any queue usage       *)
(*   SpecDispatch  EntityComputeNode / PhysicsComputeNode /                *)
(*                 EntityGraphicsNode execute()                            *)
(*   SpecSurface   PresentationSurface::acquireNextImage, presentFrame and *)
(*                 the director's swapchain image cache                    *)
(*   SpecSurfaceLive  the same with the fairness of the frame loop         *)
(*   SpecPipeline  ensurePipeline of the three nodes                       *)
(*   SpecDispatchAnyCeiling  the chunk loop under any workgroup ceiling    *)
(*   SpecEntities  GPUEntityManager staging and upload                     *)
(*   SpecPipelineCache  recreatePipelineCache of the pipeline managers     *)
(***************************************************************************)
EXTENDS Integers, Sequences, FiniteSets, TLC

(***************************************************************************)
(* Program constants                                                       *)
(***************************************************************************)
\* uint32_t values are kept as two 16-bit halves so that arithmetic wraps modulo 2^32
HALF == 65536

\* vulkan_constants.h, with the values the design text gives
THREADS_PER_WORKGROUP == 256
MAX_WORKGROUPS_PER_CHUNK == 512
MAX_FRAMES_IN_FLIGHT == 2

\* "dispatchParams.totalWorkgroups > 65535"
VULKAN_DISPATCH_LIMIT == 65535
\* "std::min(maxWorkgroupsPerDispatch, 512u)"
UNHEALTHY_MAX_WORKGROUPS == 512
\* GPUEntityManager::MAX_ENTITIES
MAX_ENTITIES == 131072
kParticlesPerBody == 3
kConstraintsPerBody == 3
\* dispatchPass("PBD_ClearSpatial", 1u, 4096u, false)
SPATIAL_CELLS == 4096
solverIterations == 8

(***************************************************************************)
(* Bounds of the model                                                     *)
(***************************************************************************)
\* most chunk iterations explored for one pass
MaxChunks == 48

Min(a, b) == IF a < b THEN a ELSE b

\* uint32_t value hi * 2^16 + lo
U32(hi, lo) == [hi |-> hi, lo |-> lo]
U32Of(n) == U32(n \div HALF, n % HALF)
U32IsZero(x) == x.hi = 0 /\ x.lo = 0
\* x + k and x * k in uint32_t, for a small k
U32Add(x, k) ==
    U32((x.hi + ((x.lo + k) \div HALF)) % HALF, (x.lo + k) % HALF)
U32Mul(x, k) ==
    U32((x.hi * k + ((x.lo * k) \div HALF)) % HALF, (x.lo * k) % HALF)
\* x / d in uint32_t, for a small d
U32Div(x, d) ==
    U32(x.hi \div d, (((x.hi % d) * HALF) + x.lo) \div d)
\* x <= n, for n below 2^31
U32Leq(x, n) == x.hi < n \div HALF \/ (x.hi = n \div HALF /\ x.lo <= n % HALF)
\* the value of x as a number; callers use it only below 2^31
U32Val(x) == x.hi * HALF + x.lo

(***************************************************************************)
(* Program state                                                           *)
(***************************************************************************)
\* state of one execute() of a node
VARIABLES
    dKind,              \* "movement" (EntityComputeNode), "physics" (PhysicsComputeNode)
                        \* or "graphics" (EntityGraphicsNode)
    entityCount,        \* gpuEntityManager->getEntityCount()
    detector,           \* node's timeoutDetector: present, recommendation, health
    forceChunkedDispatch,
    adaptiveMaxWorkgroups,
    dpc,                \* position inside execute(): "ready", "pass", "chunk", "done"
    passIdx,            \* index of the dispatchPass call being made
    maxWorkgroupsPerDispatch,
    shouldForceChunking,
    totalWorkgroups,    \* of the chunked dispatch in progress
    processedWorkgroups,
    cmds,               \* commands recorded into the command buffer by this execute()
    passLog             \* outcome of every dispatch attempted, in order

dvars == <<dKind, entityCount, detector, forceChunkedDispatch, adaptiveMaxWorkgroups,
           dpc, passIdx, maxWorkgroupsPerDispatch, shouldForceChunking,
           totalWorkgroups, processedWorkgroups, cmds, passLog>>

\* state of the frame graph
VARIABLES
    nodes,              \* nodes_: node id i is the i-th node added; nodes[i] is its class
    executionOrder,     \* executionOrder_
    compiled,           \* compiled_
    barrierBatches,     \* what barrierManager_ holds
    timeoutDetector,    \* timeoutDetector_ is set
    gpuHealthy,         \* timeoutDetector_->isGPUHealthy()
    fpc,                \* position inside execute(): "idle" between calls
    nodeIdx,            \* position in executionOrder_ of the node loop
    needed,             \* [compute, graphics]: what analyzeQueueRequirements returned
    cbBegun, cbEnded,   \* vkBeginCommandBuffer / vkEndCommandBuffer calls of this execute()
    events,             \* node lifecycle calls of this execute(), in order
    unhealthyAt,        \* position of the next node to execute when the GPU was found
                        \* unhealthy in this execute(); 0 while it is healthy
    execReport,         \* how the execute() call returned, and its ExecutionResult
    compileReport,      \* how the compile() call went, and what backupState saved
    resetReport,        \* the graph as the reset() call found it
    initialized         \* nodes whose initializeNode() has returned true
\* needed, cbBegun, cbEnded, events, execReport, compileReport and resetReport describe
\* the call in progress or the one that returned last; the next call starts them afresh.

gvars == <<nodes, executionOrder, compiled, barrierBatches, timeoutDetector, gpuHealthy,
           fpc, nodeIdx, needed, cbBegun, cbEnded, events, unhealthyAt, execReport,
           compileReport, resetReport, initialized>>

\* state of the frame loop
VARIABLES
    rpc,            \* position inside drawFrameModular(): "start" between calls
    currentFrame,   \* frame-in-flight slot of the frame
    frameCounter,
    frameStates,    \* FrameStateManager::frameStates
    fence,          \* per slot and queue: "signaled", "unsignaled", or "pending" on a submission
    submitted,      \* command buffers handed to vkQueueSubmit in the current frame
    outstanding,    \* per slot: fences handed to a submission and not waited on since
    slotFailed,     \* per slot: the last frame on it returned failed after a submission
    resetLog,       \* the last resetCommandBuffersForFrame: slot, fences not waited on
    frameOutcome,   \* how the last drawFrameModular() returned
    fenceQuery,     \* the last fence wait of drawFrameModular(): slot, its recorded use,
                    \* the fences waited on
    submitInfo,     \* semaphores of the current frame's submissions
    globalFrameCounter_,    \* RenderFrameDirector::globalFrameCounter_, a uint32_t
    globalFrames,   \* the globalFrame argument of every FrameGraph::execute call so far
    directFailures  \* whether a directFrame returned before execute() since the last
                    \* execute() call, and between the last two

fvars == <<rpc, currentFrame, frameCounter, frameStates, fence, submitted, outstanding,
           slotFailed, resetLog, frameOutcome, fenceQuery, submitInfo,
           globalFrameCounter_, globalFrames, directFailures>>

\* state of the presentation surface and of the director's swapchain image cache
VARIABLES
    spc,                    \* position of the frame: "idle" between frames, "acquiring"
                            \* inside vkAcquireNextImageKHR, then "setup", "present",
                            \* "recreate"; "recover" inside handleFrameFailure and
                            \* "retry" in the frame it tries again
    acquisitionInProgress,  \* PresentationSurface::acquisitionInProgress
    framebufferResized,     \* PresentationSurface::framebufferResized
    rendererResized,        \* VulkanRenderer::framebufferResized
    swapchainOutOfDate,     \* the surface no longer matches the swapchain: set when the
                            \* driver reports out-of-date, until the swapchain is recreated
    acquiresOutstanding,    \* vkAcquireNextImageKHR calls issued and not yet returned
    acquisition,            \* SurfaceAcquisitionResult of the frame's acquireNextImage
    presentation,           \* SubmissionResult of the frame's presentFrame
    frameGraphInitialized,  \* RenderFrameDirector::frameGraphInitialized
    swapchainImageIds,      \* RenderFrameDirector::swapchainImageIds, by image index
    swapchainImageId,       \* resource id the current frame uses for its image
    nextResourceId,         \* next id importExternalImage hands out
    idsUsed,                \* per image index: ids frames used since the last cache reset
    importsMade             \* per image index: imports since the last cache reset

svars == <<spc, acquisitionInProgress, framebufferResized, rendererResized, swapchainOutOfDate,
           acquiresOutstanding, acquisition,
           presentation, frameGraphInitialized, swapchainImageIds, swapchainImageId,
           nextResourceId, idsUsed, importsMade>>

\* pipeline cache of one node; handles are numbers, 0 is VK_NULL_HANDLE and
\* VK_FORMAT_UNDEFINED
VARIABLES
    pKind,                  \* "movement", "physics" or "graphics"
    pipelineDirty,
    cachedDescriptorLayout,
    cachedRenderPass,       \* graphics node only
    cachedPipeline,
    cachedPipelineLayout,
    cachedSwapchainFormat,  \* graphics node only
    pipelineCall            \* the last call on the node and what it did

pvars == <<pKind, pipelineDirty, cachedDescriptorLayout, cachedRenderPass, cachedPipeline,
           cachedPipelineLayout, cachedSwapchainFormat, pipelineCall>>

\* GPUEntityManager
VARIABLES
    activeEntityCount,      \* GPUEntityManager::activeEntityCount
    stagingEntities,        \* stagingEntities.size()
    entityCall              \* the last call on the manager, and the calls made so far

evars == <<activeEntityCount, stagingEntities, entityCall>>

\* pipeline cache of the compute and graphics pipeline managers
VARIABLES
    context,                \* per manager: context != nullptr
    isRecreating_,          \* per manager: the recreation-in-progress guard
    pipelineCache_,         \* per manager: the VkPipelineCache handle is not null
    recreateLog             \* the recreatePipelineCache calls made and how each returned

cvars == <<context, isRecreating_, pipelineCache_, recreateLog>>

\* state of the managers
mvars == <<evars, cvars>>

(***************************************************************************)
(* Compute-dispatch nodes                                                  *)
(***************************************************************************)
\* calculateDispatchParams: ceil-division in uint32_t
CalcTotalWorkgroups(elementCount) ==
    U32Val(U32Div(U32Add(elementCount, THREADS_PER_WORKGROUP - 1), THREADS_PER_WORKGROUP))

calculateDispatchParams(elementCount, maxWorkgroups, forceChunking) ==
    [totalWorkgroups       |-> CalcTotalWorkgroups(elementCount),
     maxWorkgroupsPerChunk |-> maxWorkgroups,
     useChunking           |-> (CalcTotalWorkgroups(elementCount) > maxWorkgroups) \/ forceChunking]

\* a limit test that lets a count of limit + 1 through
ExceedsDispatchLimitOffByOne(total) == total > VULKAN_DISPATCH_LIMIT + 1
\* "if (dispatchParams.totalWorkgroups > 65535)"
ExceedsDispatchLimit(total) == total > VULKAN_DISPATCH_LIMIT

\* a solver loop that collides before it solves the area constraints
PhysicsPassModesCollideFirst ==
    <<0, 1, 2>> \o
    [i \in 1..(3 * solverIterations) |-> CASE (i - 1) % 3 = 0 -> 3
                                          [] (i - 1) % 3 = 1 -> 5
                                          [] OTHER -> 4] \o
    <<6>>
\* the dispatchPass calls of PhysicsComputeNode::execute, by shader mode
PhysicsPassModes ==
    <<0, 1, 2>> \o
    [i \in 1..(3 * solverIterations) |-> 3 + ((i - 1) % 3)] \o
    <<6>>

PassModes(kind) == IF kind = "physics" THEN PhysicsPassModes ELSE <<7>>

\* mode 7 stands for the single EntityMovement dispatch
PassElementCount(mode, count) ==
    CASE mode = 1 -> U32Of(SPATIAL_CELLS)
      [] mode = 3 -> U32Mul(count, kConstraintsPerBody)
      [] mode = 4 -> count
      [] mode = 7 -> count
      [] OTHER    -> U32Mul(count, kParticlesPerBody)

\* a Collide pass that hands over to graphics as the Finalize pass does
FinalToGraphicsCollideToo(mode) == mode \in {5, 6}
\* finalToGraphics argument of dispatchPass
FinalToGraphics(mode) == mode = 6

\* destination stage and access mask of the barrier that ends a non-chunked dispatch
FinalBarrierDst(mode) ==
    CASE mode = 7 -> "VERTEX_SHADER"
      [] FinalToGraphics(mode) -> "VERTEX_INPUT"
      [] OTHER -> "COMPUTE_SHADER"
FinalBarrierAccess(mode) ==
    CASE mode = 7 -> {"SHADER_READ"}
      [] FinalToGraphics(mode) -> {"VERTEX_ATTRIBUTE_READ"}
      [] OTHER -> {"SHADER_READ", "SHADER_WRITE"}

\* a chunked dispatch whose final barrier always targets the compute stage
ChunkedFinalBarrierDstCompute(mode) == "COMPUTE_SHADER"
\* destination stage and access mask of the final barrier of executeChunkedDispatch
ChunkedFinalBarrierDst(mode) ==
    CASE mode = 7 -> "VERTEX_SHADER"
      [] FinalToGraphics(mode) -> "VERTEX_INPUT"
      [] OTHER -> "COMPUTE_SHADER"
ChunkedFinalBarrierAccess(mode) ==
    CASE mode = 7 -> {"SHADER_READ"}
      [] FinalToGraphics(mode) -> {"VERTEX_ATTRIBUTE_READ"}
      [] OTHER -> {"SHADER_READ", "SHADER_WRITE"}

\* adaptive workload management that leaves the ceiling alone on an unhealthy GPU
AdaptedMaxWorkgroupsNoHealthClamp(det, adaptiveMax) ==
    IF det.present /\ det.shouldReduceWorkload
    THEN Min(adaptiveMax, det.recommendedMaxWorkgroups)
    ELSE adaptiveMax
\* adaptive workload management at the top of execute()
AdaptedMaxWorkgroups(det, adaptiveMax) ==
    LET afterRec == IF det.present /\ det.shouldReduceWorkload
                    THEN Min(adaptiveMax, det.recommendedMaxWorkgroups)
                    ELSE adaptiveMax
    IN  IF det.present /\ ~det.healthy
        THEN Min(afterRec, UNHEALTHY_MAX_WORKGROUPS)
        ELSE afterRec

AdaptedForceChunking(det, force) ==
    force \/ (det.present /\ det.shouldSplitDispatches)

Dispatch(mode, idx, groups, offset) ==
    [op |-> "dispatch", mode |-> mode, pass |-> idx, groups |-> groups, offset |-> offset]
\* vkCmdPipelineBarrier with one VkMemoryBarrier: source is always the compute stage and
\* shader writes
Barrier(idx, dst, access, between) ==
    [op |-> "barrier", pass |-> idx, dst |-> dst, dstAccess |-> access, interChunk |-> between]

\* inputs explored: getEntityCount() results and timeout-detector answers
EntityCountValues == {0, 1, 257, 700, 131072, 5592320, 5592321, 16776960, 16776961}
\* ... and two counts at the top of the uint32_t range: 2^32 - 1 and (2^32 + 2) / 3
EntityCounts == {U32Of(n) : n \in EntityCountValues} \cup {U32(65535, 65535), U32(21845, 21846)}

NoDetector ==
    [present |-> FALSE, shouldReduceWorkload |-> FALSE, recommendedMaxWorkgroups |-> 0,
     shouldSplitDispatches |-> FALSE, healthy |-> TRUE]
DetectorAnswer(reduce, recommended, split, healthy) ==
    [present |-> TRUE, shouldReduceWorkload |-> reduce, recommendedMaxWorkgroups |-> recommended,
     shouldSplitDispatches |-> split, healthy |-> healthy]
Detectors ==
    {NoDetector,
     DetectorAnswer(FALSE, 0, FALSE, TRUE),
     DetectorAnswer(TRUE, 1, FALSE, TRUE),
     DetectorAnswer(TRUE, 2, TRUE, TRUE),
     DetectorAnswer(TRUE, 600, TRUE, FALSE),
     DetectorAnswer(FALSE, 0, FALSE, FALSE)}

\* MAX_WORKGROUPS_PER_CHUNK is defined outside the sources at hand and the design text
\* puts the default ceiling at 512 or more: the nodes are explored with two defaults
DefaultCeilings == {MAX_WORKGROUPS_PER_CHUNK, 2 * MAX_WORKGROUPS_PER_CHUNK}

\* number of loop iterations a chunked dispatch of `total` workgroups needs
ChunksNeeded(total, ceiling) == (total + ceiling - 1) \div ceiling

WithinChunkBudget(kind, count, det, adaptiveMax) ==
    LET ceiling == AdaptedMaxWorkgroups(det, adaptiveMax)
        modes   == PassModes(kind)
    IN  /\ ceiling >= 1
        /\ \A i \in 1..Len(modes) :
              LET total == CalcTotalWorkgroups(PassElementCount(modes[i], count))
              IN  total > VULKAN_DISPATCH_LIMIT \/ ChunksNeeded(total, ceiling) <= MaxChunks

DInit ==
    /\ dKind \in {"movement", "physics", "graphics"}
    /\ entityCount \in EntityCounts
    /\ detector \in Detectors
    /\ forceChunkedDispatch = TRUE
    /\ adaptiveMaxWorkgroups \in DefaultCeilings
    /\ IF dKind = "graphics"
       THEN \* the graphics node has no detector and no dispatch ceiling
            detector = NoDetector /\ adaptiveMaxWorkgroups = MAX_WORKGROUPS_PER_CHUNK
       ELSE WithinChunkBudget(dKind, entityCount, detector, adaptiveMaxWorkgroups)
    /\ dpc = "ready"
    /\ passIdx = 0
    /\ maxWorkgroupsPerDispatch = 0
    /\ shouldForceChunking = FALSE
    /\ totalWorkgroups = 0
    /\ processedWorkgroups = 0
    /\ cmds = <<>>
    /\ passLog = <<>>

\* a detector that recommends a ceiling of no workgroups at all
ZeroCeilingDetector == DetectorAnswer(TRUE, 0, FALSE, TRUE)

\* a node about to execute(), with the detector free to recommend a ceiling of 0
DInitAnyCeiling ==
    /\ dKind \in {"movement", "physics", "graphics"}
    /\ entityCount \in EntityCounts
    /\ detector \in Detectors \cup {ZeroCeilingDetector}
    /\ forceChunkedDispatch = TRUE
    /\ adaptiveMaxWorkgroups \in DefaultCeilings
    /\ IF dKind = "graphics"
       THEN detector = NoDetector /\ adaptiveMaxWorkgroups = MAX_WORKGROUPS_PER_CHUNK
       ELSE \/ detector = ZeroCeilingDetector
            \/ WithinChunkBudget(dKind, entityCount, detector, adaptiveMaxWorkgroups)
    /\ dpc = "ready"
    /\ passIdx = 0
    /\ maxWorkgroupsPerDispatch = 0
    /\ shouldForceChunking = FALSE
    /\ totalWorkgroups = 0
    /\ processedWorkgroups = 0
    /\ cmds = <<>>
    /\ passLog = <<>>

\* state of the dispatch variables while another specification runs
DIdle ==
    /\ dKind = "movement"
    /\ entityCount = U32Of(0)
    /\ detector = NoDetector
    /\ forceChunkedDispatch = TRUE
    /\ adaptiveMaxWorkgroups = MAX_WORKGROUPS_PER_CHUNK
    /\ dpc = "done"
    /\ passIdx = 0
    /\ maxWorkgroupsPerDispatch = 0
    /\ shouldForceChunking = FALSE
    /\ totalWorkgroups = 0
    /\ processedWorkgroups = 0
    /\ cmds = <<>>
    /\ passLog = <<>>

CurMode == PassModes(dKind)[passIdx]
CurElementCount == PassElementCount(CurMode, entityCount)

PassOutcome(idx, outcome) == [pass |-> idx, mode |-> PassModes(dKind)[idx], outcome |-> outcome]

\* control leaves dispatch number passIdx: next dispatchPass call, or end of execute()
AdvancePass ==
    IF passIdx < Len(PassModes(dKind))
    THEN /\ passIdx' = passIdx + 1
         /\ dpc' = "pass"
    ELSE /\ passIdx' = passIdx
         /\ dpc' = "done"

\* an entity-count test that never finds the count zero
NoEntitiesNever(count) == FALSE
\* "if (entityCount == 0) return;" at the top of execute()
NoEntities(count) == U32IsZero(count)

\* execute() of a compute node up to and including vkCmdBindPipeline /
\* vkCmdBindDescriptorSets.
\* `pre` is what the collaborators answer: pipeline, descriptor set, context.
DExecuteBegin ==
    /\ dpc = "ready"
    /\ dKind \in {"movement", "physics"}
    /\ \E pre \in {"ok", "noPipeline", "noDescriptorSet", "noContext"} :
        LET ceiling == AdaptedMaxWorkgroups(detector, adaptiveMaxWorkgroups)
            force   == AdaptedForceChunking(detector, forceChunkedDispatch)
            params  == calculateDispatchParams(entityCount, ceiling, force)
        IN
        IF NoEntities(entityCount) \/ pre \in {"noPipeline", "noDescriptorSet"}
        THEN /\ dpc' = "done"
             /\ UNCHANGED <<passIdx, maxWorkgroupsPerDispatch, shouldForceChunking, cmds,
                            passLog>>
        ELSE IF dKind = "movement" /\ ExceedsDispatchLimit(params.totalWorkgroups)
        THEN \* EntityComputeNode validates the limit before it binds anything
             /\ dpc' = "done"
             /\ passLog' = Append(passLog, PassOutcome(1, "refused"))
             /\ maxWorkgroupsPerDispatch' = ceiling
             /\ shouldForceChunking' = force
             /\ UNCHANGED <<passIdx, cmds>>
        ELSE IF pre = "noContext"
        THEN /\ dpc' = "done"
             /\ maxWorkgroupsPerDispatch' = ceiling
             /\ shouldForceChunking' = force
             /\ UNCHANGED <<passIdx, cmds, passLog>>
        ELSE /\ dpc' = "pass"
             /\ passIdx' = 1
             /\ maxWorkgroupsPerDispatch' = ceiling
             /\ shouldForceChunking' = force
             /\ cmds' = Append(cmds, [op |-> "bind"])
             /\ UNCHANGED passLog
    /\ UNCHANGED <<dKind, entityCount, detector, forceChunkedDispatch, adaptiveMaxWorkgroups,
                   totalWorkgroups, processedWorkgroups>>
    /\ UNCHANGED <<gvars, fvars, svars, pvars, mvars>>

\* one dispatchPass call up to its first dispatch (the whole call when it does not chunk)
DPassStart ==
    /\ dpc = "pass"
    /\ LET params == calculateDispatchParams(CurElementCount, maxWorkgroupsPerDispatch,
                                             shouldForceChunking)
       IN
       IF dKind = "physics" /\ U32IsZero(CurElementCount)
       THEN /\ passLog' = Append(passLog, PassOutcome(passIdx, "empty"))
            /\ AdvancePass
            /\ UNCHANGED <<cmds, totalWorkgroups, processedWorkgroups>>
       ELSE IF dKind = "physics" /\ ExceedsDispatchLimit(params.totalWorkgroups)
       THEN \* "return" leaves the lambda only: execute() goes on with the next pass
            /\ passLog' = Append(passLog, PassOutcome(passIdx, "refused"))
            /\ AdvancePass
            /\ UNCHANGED <<cmds, totalWorkgroups, processedWorkgroups>>
       ELSE IF ~params.useChunking
       THEN /\ cmds' = cmds \o <<Dispatch(CurMode, passIdx, params.totalWorkgroups, 0),
                                 Barrier(passIdx, FinalBarrierDst(CurMode),
                                         FinalBarrierAccess(CurMode), FALSE)>>
            /\ passLog' = Append(passLog, PassOutcome(passIdx, "single"))
            /\ AdvancePass
            /\ UNCHANGED <<totalWorkgroups, processedWorkgroups>>
       ELSE /\ dpc' = "chunk"
            /\ totalWorkgroups' = params.totalWorkgroups
            /\ processedWorkgroups' = 0
            /\ UNCHANGED <<passIdx, cmds, passLog>>
    /\ UNCHANGED <<dKind, entityCount, detector, forceChunkedDispatch, adaptiveMaxWorkgroups,
                   maxWorkgroupsPerDispatch, shouldForceChunking>>
    /\ UNCHANGED <<gvars, fvars, svars, pvars, mvars>>

\* a chunk offset that forgets the threads-per-workgroup factor
BaseElementOffsetInWorkgroups(processed) == processed
\* "baseElementOffset = processedWorkgroups * THREADS_PER_WORKGROUP"
BaseElementOffset(processed) == processed * THREADS_PER_WORKGROUP

\* a chunk that stays one workgroup below the ceiling
CurrentChunkSizeBelowCeiling(maxPerChunk, total, processed) ==
    Min(maxPerChunk - 1, total - processed)
\* "currentChunkSize = std::min(maxWorkgroupsPerChunk, totalWorkgroups - processedWorkgroups)"
CurrentChunkSize(maxPerChunk, total, processed) == Min(maxPerChunk, total - processed)

\* chunkCount of executeChunkedDispatch: iterations made for the dispatch in progress
chunkCount ==
    Cardinality({k \in 1..Len(cmds) : cmds[k].op = "dispatch" /\ cmds[k].pass = passIdx})

\* loop condition of executeChunkedDispatch, with its "no more elements" break
ChunkLoopContinues ==
    /\ processedWorkgroups < totalWorkgroups
    /\ ~U32Leq(CurElementCount, BaseElementOffset(processedWorkgroups))

\* one iteration of the while loop of executeChunkedDispatch
DChunkStep ==
    /\ dpc = "chunk"
    /\ ChunkLoopContinues
    /\ chunkCount < MaxChunks
    /\ LET currentChunkSize  == CurrentChunkSize(maxWorkgroupsPerDispatch, totalWorkgroups,
                                                 processedWorkgroups)
           baseElementOffset == BaseElementOffset(processedWorkgroups)
           d == Dispatch(CurMode, passIdx, currentChunkSize, baseElementOffset)
       IN  /\ cmds' = IF processedWorkgroups + currentChunkSize < totalWorkgroups
                      THEN cmds \o <<d, Barrier(passIdx, "COMPUTE_SHADER",
                                                 {"SHADER_READ", "SHADER_WRITE"}, TRUE)>>
                      ELSE Append(cmds, d)
           /\ processedWorkgroups' = processedWorkgroups + currentChunkSize
    /\ UNCHANGED <<dKind, entityCount, detector, forceChunkedDispatch, adaptiveMaxWorkgroups,
                   dpc, passIdx, maxWorkgroupsPerDispatch, shouldForceChunking, totalWorkgroups,
                   passLog>>
    /\ UNCHANGED <<gvars, fvars, svars, pvars, mvars>>

\* loop exit of executeChunkedDispatch: the final barrier
DChunkEnd ==
    /\ dpc = "chunk"
    /\ ~ChunkLoopContinues
    /\ cmds' = Append(cmds, Barrier(passIdx, ChunkedFinalBarrierDst(CurMode),
                                    ChunkedFinalBarrierAccess(CurMode), FALSE))
    /\ passLog' = Append(passLog, PassOutcome(passIdx, "chunked"))
    /\ AdvancePass
    /\ UNCHANGED <<dKind, entityCount, detector, forceChunkedDispatch, adaptiveMaxWorkgroups,
                   maxWorkgroupsPerDispatch, shouldForceChunking, totalWorkgroups,
                   processedWorkgroups>>
    /\ UNCHANGED <<gvars, fvars, svars, pvars, mvars>>

\* commands EntityGraphicsNode::execute records
GraphicsCmd(name) == [op |-> name]
RenderPassSetup ==
    <<GraphicsCmd("beginRenderPass"), GraphicsCmd("setViewport"), GraphicsCmd("setScissor"),
      GraphicsCmd("bindGraphicsPipeline")>>
DrawEntities(count) ==
    IF ~U32IsZero(count)
    THEN <<GraphicsCmd("bindVertexBuffers"), GraphicsCmd("bindIndexBuffer"),
           [op |-> "drawIndexed", bodies |-> count]>>
    ELSE <<>>

\* EntityGraphicsNode::execute.  `pre` is what the collaborators answer: context,
\* pipeline, framebuffer of the image index, descriptor set.
DGraphicsExecute ==
    /\ dpc = "ready"
    /\ dKind = "graphics"
    /\ \E pre \in {"ok", "noContext", "noPipeline", "badImageIndex", "noDescriptorSet"} :
          cmds' = IF NoEntities(entityCount) \/ pre \in {"noContext", "noPipeline", "badImageIndex"}
                  THEN <<>>
                  ELSE IF pre = "noDescriptorSet"
                  THEN \* returns between vkCmdBindPipeline and vkCmdBindDescriptorSets
                       RenderPassSetup
                  ELSE RenderPassSetup
                       \o <<GraphicsCmd("bindDescriptorSets"), GraphicsCmd("pushConstants")>>
                       \o DrawEntities(entityCount)
                       \o <<GraphicsCmd("endRenderPass")>>
    /\ dpc' = "done"
    /\ UNCHANGED <<dKind, entityCount, detector, forceChunkedDispatch, adaptiveMaxWorkgroups,
                   passIdx, maxWorkgroupsPerDispatch, shouldForceChunking, totalWorkgroups,
                   processedWorkgroups, passLog>>
    /\ UNCHANGED <<gvars, fvars, svars, pvars, mvars>>

DNext == DExecuteBegin \/ DPassStart \/ DChunkStep \/ DChunkEnd \/ DGraphicsExecute

(***************************************************************************)
(* Frame graph                                                             *)
(***************************************************************************)
\* most nodes registered with addNode
MaxNodes == 3

\* the node classes: queue affinity, getInputs(), getOutputs(), and whether
\* initializeNode() can fail.  CycleNodeA / CycleNodeB and CycleNodeC / CycleNodeD are
\* the halves of two synthetic dependency cycles, CycleConsumer a node that reads what
\* the first cycle produces.
NodeClass ==
    [EntityComputeNode |->
        [compute |-> TRUE, inputs |-> {"velocity", "movementParams", "runtimeState"},
         outputs |-> {"velocity", "runtimeState"}, initCanFail |-> TRUE],
     PhysicsComputeNode |->
        [compute |-> TRUE, inputs |-> {"velocity", "runtimeState", "position", "controlParams"},
         outputs |-> {"velocity", "runtimeState", "position"}, initCanFail |-> TRUE],
     EntityGraphicsNode |->
        [compute |-> FALSE, inputs |-> {"position", "movementParams", "controlParams"},
         outputs |-> {"swapchainImage"}, initCanFail |-> TRUE],
     SwapchainPresentNode |->
        [compute |-> FALSE, inputs |-> {"swapchainImage"},
         outputs |-> {}, initCanFail |-> FALSE],
     CycleNodeA |->
        [compute |-> TRUE, inputs |-> {"x"}, outputs |-> {"y"}, initCanFail |-> FALSE],
     CycleNodeB |->
        [compute |-> FALSE, inputs |-> {"y"}, outputs |-> {"x"}, initCanFail |-> FALSE],
     CycleNodeC |->
        [compute |-> TRUE, inputs |-> {"u"}, outputs |-> {"v"}, initCanFail |-> FALSE],
     CycleNodeD |->
        [compute |-> FALSE, inputs |-> {"v"}, outputs |-> {"u"}, initCanFail |-> FALSE],
     CycleConsumer |->
        [compute |-> FALSE, inputs |-> {"y"}, outputs |-> {}, initCanFail |-> FALSE]]

NodeClasses == DOMAIN NodeClass

\* the classes the frame graph interface is exercised with
AddableClasses ==
    {"EntityComputeNode", "PhysicsComputeNode", "EntityGraphicsNode", "SwapchainPresentNode",
     "CycleNodeA", "CycleNodeB"}

\* the resource ids the nodes declare
Resources == UNION {NodeClass[c].inputs \cup NodeClass[c].outputs : c \in NodeClasses}

needsComputeQueue(ns, id) == NodeClass[ns[id]].compute
needsGraphicsQueue(ns, id) == ~NodeClass[ns[id]].compute

NodeIds(ns) == 1..Len(ns)
SeqToSet(q) == {q[i] : i \in 1..Len(q)}
SetMin(S) == CHOOSE m \in S : \A o \in S : m <= o
SetMax(S) == CHOOSE m \in S : \A o \in S : m >= o

\* dependency analysis of the compiler: a node depends on the last registered writer
\* of each of its inputs, unless that writer is the node itself
Writers(ns, r) == {n \in NodeIds(ns) : r \in NodeClass[ns[n]].outputs}
Dependencies(ns, n) ==
    {SetMax(Writers(ns, r)) : r \in {q \in NodeClass[ns[n]].inputs : Writers(ns, q) # {}}} \ {n}

\* topological sort, stable in registration order; stops at the nodes held up by a cycle
RECURSIVE TopologicalPrefix(_, _)
TopologicalPrefix(ns, placed) ==
    LET ready == {n \in NodeIds(ns) \ SeqToSet(placed) :
                     Dependencies(ns, n) \subseteq SeqToSet(placed)}
    IN  IF ready = {} THEN placed
        ELSE TopologicalPrefix(ns, Append(placed, SetMin(ready)))

\* compiler_.compileWithCycleDetection: success flag and execution order
compileWithCycleDetection(ns) ==
    LET order == TopologicalPrefix(ns, <<>>)
    IN  [ok |-> Len(order) = Len(ns), executionOrder |-> order]

\* the pairs (n, m) such that n depends on m through one dependency or more
RECURSIVE DependencyClosure(_, _)
DependencyClosure(R, rounds) ==
    IF rounds = 0 THEN R
    ELSE DependencyClosure(R \cup {<<p[1], q[2]>> : <<p, q>> \in {pq \in R \X R : pq[1][2] = pq[2][1]}},
                           rounds - 1)
TransitiveDependencies(ns) ==
    DependencyClosure({<<n, m>> : <<n, m>> \in {nm \in NodeIds(ns) \X NodeIds(ns) :
                                                   nm[2] \in Dependencies(ns, nm[1])}},
                      Len(ns))

\* the cycleReport of compileWithCycleDetection: every dependency cycle it finds, each as
\* the set of the nodes of its chain
DetectCycles(ns) ==
    LET T == TransitiveDependencies(ns)
    IN  {{m \in NodeIds(ns) : <<n, m>> \in T /\ <<m, n>> \in T} :
            n \in {c \in NodeIds(ns) : <<c, c>> \in T}}

\* compiler_.attemptPartialCompilation
attemptPartialCompilation(ns) ==
    LET order == TopologicalPrefix(ns, <<>>)
    IN  [hasValidSubgraph |-> order # <<>>,
         validNodes |-> order,
         problematicNodes |-> NodeIds(ns) \ SeqToSet(order)]

\* barrierManager_.analyzeBarrierRequirements + createOptimalBarrierBatches: one barrier
\* in front of a node for each input written by an earlier node of the order
ComputeBarrierBatches(order, ns) ==
    {[before |-> order[k], resource |-> r] :
        <<k, r>> \in {kr \in (1..Len(order)) \X Resources :
                        /\ kr[2] \in NodeClass[ns[order[kr[1]]]].inputs
                        /\ \E j \in 1..(kr[1] - 1) : kr[2] \in NodeClass[ns[order[j]]].outputs}}

\* barrierManager_.insertBarriersForNode: the resources covered by the barriers it records
\* in front of a node, those of the node's batch
insertBarriersForNode(batches, id) == {b.resource : b \in {c \in batches : c.before = id}}

\* a scan over every registered node, in the execution order or not
analyzeQueueRequirementsAllNodes(order, ns) ==
    [compute  |-> \E n \in NodeIds(ns) : needsComputeQueue(ns, n),
     graphics |-> \E n \in NodeIds(ns) : needsGraphicsQueue(ns, n)]
\* analyzeQueueRequirements: a scan over the nodes of executionOrder_
analyzeQueueRequirements(order, ns) ==
    [compute  |-> \E k \in 1..Len(order) : needsComputeQueue(ns, order[k]),
     graphics |-> \E k \in 1..Len(order) : needsGraphicsQueue(ns, order[k])]

NoCalls == [compute |-> 0, graphics |-> 0]

\* beginCommandBuffers / endCommandBuffers: one Vulkan call per requested queue
beginCommandBuffers(calls, useCompute, useGraphics) ==
    [compute  |-> calls.compute + (IF useCompute THEN 1 ELSE 0),
     graphics |-> calls.graphics + (IF useGraphics THEN 1 ELSE 0)]

\* an endCommandBuffers that ends both command buffers whatever was begun
endBothCommandBuffers(calls, useCompute, useGraphics) ==
    [compute |-> calls.compute + 1, graphics |-> calls.graphics + 1]
endCommandBuffers(calls, useCompute, useGraphics) ==
    [compute  |-> calls.compute + (IF useCompute THEN 1 ELSE 0),
     graphics |-> calls.graphics + (IF useGraphics THEN 1 ELSE 0)]

NoBackup == [executionOrder |-> <<>>, compiled |-> FALSE]
NoCompileReport ==
    [initFailed |-> FALSE, returned |-> FALSE, path |-> "none", backup |-> NoBackup,
     initInvoked |-> {}, repeated |-> FALSE, cycles |-> {}]
NoResetReport ==
    [called |-> FALSE, compiled |-> FALSE, executionOrder |-> <<>>, nodeIds |-> {}]
NoQueues == [compute |-> FALSE, graphics |-> FALSE]
NoExecReport ==
    [outcome |-> "none", computeCommandBufferUsed |-> FALSE, graphicsCommandBufferUsed |-> FALSE]

\* state after FrameGraph::initialize
GInit ==
    /\ nodes = <<>>
    /\ executionOrder = <<>>
    /\ compiled = FALSE
    /\ barrierBatches = {}
    /\ timeoutDetector \in BOOLEAN
    /\ gpuHealthy = TRUE
    /\ fpc = "idle"
    /\ nodeIdx = 0
    /\ needed = NoQueues
    /\ cbBegun = NoCalls
    /\ cbEnded = NoCalls
    /\ events = <<>>
    /\ unhealthyAt = 0
    /\ execReport = NoExecReport
    /\ compileReport = NoCompileReport
    /\ resetReport = NoResetReport
    /\ initialized = {}

\* a call starts: nothing left of the previous execute() and compile()
ForgetLastExecuteAndCompile ==
    /\ nodeIdx' = 0
    /\ needed' = NoQueues
    /\ cbBegun' = NoCalls
    /\ cbEnded' = NoCalls
    /\ events' = <<>>
    /\ execReport' = NoExecReport
    /\ compileReport' = NoCompileReport
    /\ unhealthyAt' = 0

\* a call other than execute(), compile() or reset() starts
ForgetLastCall ==
    /\ ForgetLastExecuteAndCompile
    /\ resetReport' = NoResetReport

\* addNode<T>(...): each node class is registered at most once
AddNode ==
    /\ fpc = "idle"
    /\ Len(nodes) < MaxNodes
    /\ \E class \in AddableClasses \ SeqToSet(nodes) : nodes' = Append(nodes, class)
    /\ ForgetLastCall
    /\ UNCHANGED <<executionOrder, compiled, barrierBatches, timeoutDetector, gpuHealthy, fpc,
                   initialized>>
    /\ UNCHANGED <<fvars, dvars, svars, pvars, mvars>>

\* positions of the order whose initializeNode() may return false; 0 stands for none
InitFailures(order, ns) ==
    {0} \cup {k \in 1..Len(order) : NodeClass[ns[order[k]]].initCanFail}

\* the initializeNode() loop of compile(): nodes it calls initializeNode() on, and nodes
\* whose initializeNode() returned true, when the call at position failAt returns false
InitInvoked(order, failAt) ==
    {order[k] : k \in 1..(IF failAt = 0 THEN Len(order) ELSE failAt)}
InitSucceeded(order, failAt) ==
    {order[k] : k \in 1..(IF failAt = 0 THEN Len(order) ELSE failAt - 1)}

\* compile() with compiled_ set before the initializeNode() loop
CompiledBeforeInitialization(failAt) == TRUE
\* compile(): compiled_ is set after the initializeNode() loop, which returns from
\* compile() at the first node whose initializeNode() returns false
CompiledAfterInitialization(failAt) == failAt = 0

\* reset(): executionOrder_ is cleared whatever the compilation state
OrderAfterResetCleared(order, isCompiled) == <<>>
\* reset(): executionOrder_ is kept if the graph is compiled
OrderAfterReset(order, isCompiled) == IF isCompiled THEN order ELSE <<>>

\* compile() printing the first cycle of the report only
ReportedFirstCycleOnly(cycles) == IF cycles = {} THEN {} ELSE {CHOOSE c \in cycles : TRUE}
\* compile(): the cycle chains it reports, one per cycle of cycleReport.cycles
ReportedCycles(cycles) == cycles

\* compile() with executionOrder_ not cleared before the compiler fills it
CompilationStartOrderKept(order) == order
\* compile(): executionOrder_.clear() before the compiler fills it
CompilationStartOrder(order) == <<>>

\* compile(), partial path, with the skipped nodes put after the valid ones
PartialExecutionOrderWithSkipped(partialResult) ==
    partialResult.validNodes
        \o SelectSeq([i \in 1..(Len(partialResult.validNodes)
                                  + Cardinality(partialResult.problematicNodes)) |-> i],
                     LAMBDA i : i \in partialResult.problematicNodes)
\* compile(), partial path: executionOrder_ = partialResult.validNodes
PartialExecutionOrder(partialResult) == partialResult.validNodes

\* compile()
Compile ==
    /\ fpc = "idle"
    /\ \E full \in {compileWithCycleDetection(nodes)},
          partial \in {attemptPartialCompilation(nodes)} :
       LET partialOrder == PartialExecutionOrder(partial)
           \* compiler_.backupState(executionOrder_, compiled_)
           backup  == [executionOrder |-> executionOrder, compiled |-> compiled]
           report(path, failed, ret, invoked) ==
               [initFailed |-> failed, returned |-> ret, path |-> path, backup |-> backup,
                initInvoked |-> invoked, repeated |-> compileReport.path # "none",
                cycles |-> IF full.ok THEN {} ELSE ReportedCycles(DetectCycles(nodes))]
       IN
       IF full.ok
       THEN \E failAt \in InitFailures(full.executionOrder, nodes) :
               /\ executionOrder' = CompilationStartOrder(executionOrder) \o full.executionOrder
               /\ barrierBatches' = ComputeBarrierBatches(full.executionOrder, nodes)
               /\ compiled' = CompiledAfterInitialization(failAt)
               /\ initialized' = initialized \cup InitSucceeded(full.executionOrder, failAt)
               /\ compileReport' = report("normal", failAt # 0, failAt = 0,
                                          InitInvoked(full.executionOrder, failAt))
       ELSE IF partial.hasValidSubgraph
       THEN \E failAt \in InitFailures(partialOrder, nodes) :
               /\ barrierBatches' = ComputeBarrierBatches(partialOrder, nodes)
               /\ initialized' = initialized \cup InitSucceeded(partialOrder, failAt)
               /\ IF failAt # 0
                  THEN \* compiler_.restoreState(executionOrder_, compiled_)
                       /\ executionOrder' = backup.executionOrder
                       /\ compiled' = backup.compiled
                  ELSE /\ executionOrder' = partialOrder
                       /\ compiled' = TRUE
               /\ compileReport' = report("partial", failAt # 0, failAt = 0,
                                          InitInvoked(partialOrder, failAt))
       ELSE /\ executionOrder' = backup.executionOrder
            /\ compiled' = backup.compiled
            /\ barrierBatches' = {}
            /\ initialized' = initialized
            /\ compileReport' = report("failed", FALSE, FALSE, {})
    /\ nodeIdx' = 0
    /\ needed' = NoQueues
    /\ cbBegun' = NoCalls
    /\ cbEnded' = NoCalls
    /\ events' = <<>>
    /\ execReport' = NoExecReport
    /\ resetReport' = NoResetReport
    /\ unhealthyAt' = 0
    /\ UNCHANGED <<nodes, timeoutDetector, gpuHealthy, fpc>>
    /\ UNCHANGED <<fvars, dvars, svars, pvars, mvars>>

\* reset()
Reset ==
    /\ fpc = "idle"
    /\ barrierBatches' = {}
    /\ executionOrder' = OrderAfterReset(executionOrder, compiled)
    /\ resetReport' = [called |-> TRUE, compiled |-> compiled,
                       executionOrder |-> executionOrder, nodeIds |-> NodeIds(nodes)]
    /\ ForgetLastExecuteAndCompile
    /\ UNCHANGED <<nodes, initialized, compiled, timeoutDetector, gpuHealthy, fpc>>
    /\ UNCHANGED <<fvars, dvars, svars, pvars, mvars>>

\* timeoutDetector_ && !timeoutDetector_->isGPUHealthy(), with the health checks left out
HealthCheckIgnored(hasDetector, healthy) == FALSE
HealthCheckFails(hasDetector, healthy) == hasDetector /\ ~healthy

\* the node loop with the barriers recorded after the node's own commands
NextStepBarriersAfterExecute(pc, hasDetector) ==
    CASE pc = "health"    -> "prepare"
      [] pc = "prepare"   -> "execute"
      [] pc = "execute"   -> "barriers"
      [] pc = "barriers"  -> IF hasDetector THEN "postcheck" ELSE "release"
      [] pc = "postcheck" -> "release"
      [] OTHER            -> "next"
\* the statements of one iteration of the node loop, in program order
NextStep(pc, hasDetector) ==
    CASE pc = "health"    -> "prepare"
      [] pc = "prepare"   -> "barriers"
      [] pc = "barriers"  -> "execute"
      [] pc = "execute"   -> IF hasDetector THEN "postcheck" ELSE "release"
      [] pc = "postcheck" -> "release"
      [] OTHER            -> "next"

\* first statement of an iteration
LoopEntry(hasDetector) == IF hasDetector THEN "health" ELSE "prepare"

CurNode == executionOrder[nodeIdx]
Event(call, id) == [call |-> call, node |-> id]

\* execute(): from entry to beginCommandBuffers
ExecuteBegin ==
    /\ fpc = "idle"
    /\ events' = <<>>
    /\ cbEnded' = NoCalls
    /\ compileReport' = NoCompileReport
    /\ resetReport' = NoResetReport
    /\ IF ~compiled
       THEN /\ execReport' = [NoExecReport EXCEPT !.outcome = "notCompiled"]
            /\ cbBegun' = NoCalls
            /\ nodeIdx' = 0
            /\ needed' = NoQueues
            /\ UNCHANGED fpc
       ELSE LET q == analyzeQueueRequirements(executionOrder, nodes) IN
            /\ needed' = q
            /\ execReport' = [outcome |-> "running",
                              computeCommandBufferUsed |-> q.compute,
                              graphicsCommandBufferUsed |-> q.graphics]
            /\ cbBegun' = beginCommandBuffers(NoCalls, q.compute, q.graphics)
            /\ nodeIdx' = 1
            /\ fpc' = IF executionOrder = <<>> THEN "end" ELSE LoopEntry(timeoutDetector)
    /\ unhealthyAt' = IF HealthCheckFails(timeoutDetector, gpuHealthy) THEN 1 ELSE 0
    /\ UNCHANGED <<nodes, initialized, executionOrder, compiled, barrierBatches, timeoutDetector,
                   gpuHealthy>>
    /\ UNCHANGED <<fvars, dvars, svars, pvars, mvars>>

\* leaving a statement of the loop body: on to the next statement, the next node, or out
Advance ==
    LET step == NextStep(fpc, timeoutDetector) IN
    IF step # "next"
    THEN fpc' = step /\ nodeIdx' = nodeIdx
    ELSE /\ nodeIdx' = nodeIdx + 1
         /\ fpc' = IF nodeIdx = Len(executionOrder) THEN "end" ELSE LoopEntry(timeoutDetector)

\* executeWithTimeoutMonitoring returned false: end the command buffers, report, return
AbortExecution ==
    /\ cbEnded' = endCommandBuffers(cbEnded, needed.compute, needed.graphics)
    /\ execReport' = [execReport EXCEPT !.outcome = "aborted"]
    /\ fpc' = "idle"
    /\ UNCHANGED <<nodes, initialized, executionOrder, compiled, barrierBatches, timeoutDetector, gpuHealthy,
                   nodeIdx, needed, cbBegun, events, unhealthyAt, compileReport, resetReport>>

\* the two isGPUHealthy() checks around a node
NodeHealthCheck ==
    /\ fpc \in {"health", "postcheck"}
    /\ IF HealthCheckFails(timeoutDetector, gpuHealthy)
       THEN AbortExecution
       ELSE /\ Advance
            /\ UNCHANGED <<nodes, initialized, executionOrder, compiled, barrierBatches, timeoutDetector,
                           gpuHealthy, needed, cbBegun, cbEnded, events, unhealthyAt,
                           execReport, compileReport, resetReport>>
    /\ UNCHANGED <<fvars, dvars, svars, pvars, mvars>>

\* node->prepareFrame(frameContext)
NodePrepare ==
    /\ fpc = "prepare"
    /\ events' = Append(events, Event("prepareFrame", CurNode))
    /\ Advance
    /\ UNCHANGED <<nodes, initialized, executionOrder, compiled, barrierBatches, timeoutDetector, gpuHealthy,
                   needed, cbBegun, cbEnded, unhealthyAt, execReport, compileReport, resetReport>>
    /\ UNCHANGED <<fvars, dvars, svars, pvars, mvars>>

\* barrierManager_.insertBarriersForNode(nodeId, ...)
NodeBarriers ==
    /\ fpc = "barriers"
    /\ events' = Append(events, Event("insertBarriers", CurNode))
    /\ Advance
    /\ UNCHANGED <<nodes, initialized, executionOrder, compiled, barrierBatches, timeoutDetector, gpuHealthy,
                   needed, cbBegun, cbEnded, unhealthyAt, execReport, compileReport, resetReport>>
    /\ UNCHANGED <<fvars, dvars, svars, pvars, mvars>>

\* beginComputeDispatch, node->execute(cmdBuffer, *this), endComputeDispatch: the detector
\* may find the dispatch of a compute node over its threshold
NodeExecute ==
    /\ fpc = "execute"
    /\ events' = Append(events, Event("execute", CurNode))
    /\ \E timedOut \in BOOLEAN :
          IF timedOut /\ timeoutDetector /\ gpuHealthy /\ needsComputeQueue(nodes, CurNode)
          THEN gpuHealthy' = FALSE /\ unhealthyAt' = nodeIdx + 1
          ELSE UNCHANGED <<gpuHealthy, unhealthyAt>>
    /\ Advance
    /\ UNCHANGED <<nodes, initialized, executionOrder, compiled, barrierBatches, timeoutDetector, needed,
                   cbBegun, cbEnded, execReport, compileReport, resetReport>>
    /\ UNCHANGED <<fvars, dvars, svars, pvars, mvars>>

\* node->releaseFrame(frameIndex)
NodeRelease ==
    /\ fpc = "release"
    /\ events' = Append(events, Event("releaseFrame", CurNode))
    /\ Advance
    /\ UNCHANGED <<nodes, initialized, executionOrder, compiled, barrierBatches, timeoutDetector, gpuHealthy,
                   needed, cbBegun, cbEnded, unhealthyAt, execReport, compileReport, resetReport>>
    /\ UNCHANGED <<fvars, dvars, svars, pvars, mvars>>

\* execute(): the node loop ran to its end
ExecuteEnd ==
    /\ fpc = "end"
    /\ cbEnded' = endCommandBuffers(cbEnded, needed.compute, needed.graphics)
    /\ execReport' = [execReport EXCEPT !.outcome = "completed"]
    /\ fpc' = "idle"
    /\ UNCHANGED <<nodes, initialized, executionOrder, compiled, barrierBatches, timeoutDetector, gpuHealthy,
                   nodeIdx, needed, cbBegun, events, unhealthyAt, compileReport, resetReport>>
    /\ UNCHANGED <<fvars, dvars, svars, pvars, mvars>>

\* between frames the detector is driven by the nodes' own monitoring and by the
\* recovery layer: it may report the GPU unhealthy before the next frame starts ...
GpuBecomesUnhealthy ==
    /\ fpc = "idle"
    /\ timeoutDetector
    /\ gpuHealthy
    /\ gpuHealthy' = FALSE
    /\ ForgetLastCall
    /\ UNCHANGED <<nodes, initialized, executionOrder, compiled, barrierBatches, timeoutDetector, fpc>>
    /\ UNCHANGED <<fvars, dvars, svars, pvars, mvars>>

\* ... or healthy again
GpuRecovers ==
    /\ fpc = "idle"
    /\ ~gpuHealthy
    /\ gpuHealthy' = TRUE
    /\ ForgetLastCall
    /\ UNCHANGED <<nodes, initialized, executionOrder, compiled, barrierBatches, timeoutDetector, fpc>>
    /\ UNCHANGED <<fvars, dvars, svars, pvars, mvars>>

GNext ==
    \/ AddNode
    \/ Compile
    \/ Reset
    \/ ExecuteBegin
    \/ NodeHealthCheck
    \/ NodePrepare
    \/ NodeBarriers
    \/ NodeExecute
    \/ NodeRelease
    \/ ExecuteEnd
    \/ GpuBecomesUnhealthy
    \/ GpuRecovers

\* the frame graph while another component is exercised
GIdle ==
    /\ nodes = <<>>
    /\ executionOrder = <<>>
    /\ compiled = FALSE
    /\ barrierBatches = {}
    /\ timeoutDetector = FALSE
    /\ gpuHealthy = TRUE
    /\ fpc = "idle"
    /\ nodeIdx = 0
    /\ needed = NoQueues
    /\ cbBegun = NoCalls
    /\ cbEnded = NoCalls
    /\ events = <<>>
    /\ unhealthyAt = 0
    /\ execReport = NoExecReport
    /\ compileReport = NoCompileReport
    /\ resetReport = NoResetReport
    /\ initialized = {}

(***************************************************************************)
(* Frame loop: VulkanRenderer::drawFrameModular and the services it drives *)
(***************************************************************************)
\* frames the loop is followed for
MaxFrames == 4
\* most FrameGraph::execute calls explored in the frame loop
MaxExecutes == 5

Slots == 0..(MAX_FRAMES_IN_FLIGHT - 1)
Queues == {"compute", "graphics"}

\* FrameStateManager::getFencesToWait without the compute fence
getFencesToWaitGraphicsOnly(slotState) ==
    IF slotState.graphicsUsed THEN {"graphics"} ELSE {}
\* FrameStateManager::getFencesToWait: compute fence, in-flight fence
getFencesToWait(slotState) ==
    (IF slotState.computeUsed THEN {"compute"} ELSE {})
        \cup (IF slotState.graphicsUsed THEN {"graphics"} ELSE {})

\* a hasActiveFences that reports no slot as having fences to wait on
hasActiveFencesNever(slotState) == FALSE
\* FrameStateManager::hasActiveFences
hasActiveFences(slotState) == slotState.computeUsed \/ slotState.graphicsUsed

\* compileFrameGraph with the frame graph compiled afresh every frame
NeedsCompileAlways(isCompiled) == TRUE
\* compileFrameGraph: compile() is called only if the frame graph is not compiled
NeedsCompile(isCompiled) == ~isCompiled

\* the four nodes RenderFrameDirector::setupFrameGraph registers
DirectorNodes ==
    <<"EntityComputeNode", "PhysicsComputeNode", "EntityGraphicsNode", "SwapchainPresentNode">>

NoReset == [slot |-> 0, unwaited |-> {}, afterFailed |-> FALSE, happened |-> FALSE]
NoFenceQuery ==
    [asked |-> FALSE, slot |-> 0, recorded |-> [computeUsed |-> TRUE, graphicsUsed |-> TRUE],
     fences |-> {}]
NoSubmitInfo == [computeSignals |-> {}, graphicsSubmitted |-> FALSE, graphicsWaits |-> {}]

\* submitFrame: a graphics submission that waits for compute whatever the frame used
WaitForComputeAlways(executionResult) == TRUE
\* submitFrame: the waitForCompute argument it hands to submitGraphicsWork
WaitForCompute(executionResult) == executionResult.computeCommandBufferUsed

\* submitComputeWorkAsync: semaphores the compute submission signals
ComputeSignalSemaphores == {"computeFinished"}

\* submitGraphicsWork: semaphores the graphics submission waits on
GraphicsWaitSemaphores(waitForCompute) ==
    {"imageAvailable"} \cup (IF waitForCompute THEN {"computeFinished"} ELSE {})

\* a fetch_add that leaves the counter as it is
FetchAddNothing(counter) == counter
\* globalFrameCounter_.fetch_add(1): the counter afterwards
FetchAdd(counter) == U32Add(counter, 1)

\* state after FrameStateManager::initialize and VulkanSync creation
FrameInit ==
    /\ rpc = "start"
    /\ currentFrame = 0
    /\ frameCounter = 0
    /\ frameStates = [s \in Slots |-> [computeUsed |-> TRUE, graphicsUsed |-> TRUE]]
    /\ fence = [s \in Slots |-> [q \in Queues |-> "signaled"]]
    /\ submitted = {}
    /\ outstanding = [s \in Slots |-> {}]
    /\ slotFailed = [s \in Slots |-> FALSE]
    /\ resetLog = NoReset
    /\ frameOutcome = "none"
    /\ fenceQuery = NoFenceQuery
    /\ submitInfo = NoSubmitInfo
    /\ globalFrameCounter_ = U32Of(0)
    /\ globalFrames = <<>>
    /\ directFailures = [sinceExecute |-> FALSE, beforeExecute |-> FALSE]

\* drawFrameModular() returns early: the slot and the frame state stay as they are
FrameReturnsFailed(why) ==
    /\ rpc' = "start"
    /\ frameOutcome' = why
    /\ UNCHANGED <<currentFrame, frameCounter, frameStates>>

\* drawFrameModular(): vkWaitForFences on the slot's fences (blocks until all are signaled)
FrameWait ==
    /\ rpc = "start"
    /\ frameCounter < MaxFrames
    /\ Len(globalFrames) < MaxExecutes
    /\ LET toWait == IF hasActiveFences(frameStates[currentFrame])
                     THEN getFencesToWait(frameStates[currentFrame]) ELSE {}
       IN  \E waitResult \in {"VK_SUCCESS", "VK_ERROR_DEVICE_LOST"} :
              IF toWait # {} /\ waitResult # "VK_SUCCESS"
              THEN /\ FrameReturnsFailed("waitFailed")
                   /\ UNCHANGED outstanding
              ELSE /\ \A q \in toWait : fence[currentFrame][q] = "signaled"
                   /\ outstanding' = [outstanding EXCEPT ![currentFrame] = @ \ toWait]
                   /\ rpc' = "direct"
                   /\ frameOutcome' = "running"
                   /\ UNCHANGED <<currentFrame, frameCounter, frameStates>>
    /\ fenceQuery' = [asked |-> TRUE, slot |-> currentFrame,
                      recorded |-> frameStates[currentFrame],
                      fences |-> IF hasActiveFences(frameStates[currentFrame])
                                 THEN getFencesToWait(frameStates[currentFrame]) ELSE {}]
    /\ UNCHANGED <<fence, submitted, slotFailed, resetLog, submitInfo, globalFrameCounter_,
                   globalFrames, directFailures>>
    /\ UNCHANGED gvars
    /\ UNCHANGED <<dvars, svars, pvars, mvars>>

\* RenderFrameDirector::directFrame: acquire, setupFrameGraph, compileFrameGraph,
\* FrameGraph::execute.  The node loop is followed statement by statement in Spec; here
\* execute() is one step and only its result is kept.  "acquired" is the outcome of the
\* acquisition after the recovery layer's retry, if any.
FrameDirect ==
    /\ rpc = "direct"
    /\ submitted' = {}
    /\ submitInfo' = NoSubmitInfo
    /\ \E acquired \in BOOLEAN :
       LET ns    == IF nodes = <<>> THEN DirectorNodes ELSE nodes
           full  == compileWithCycleDetection(ns)
       IN
       IF ~acquired
       THEN /\ FrameReturnsFailed("directFailed")
            /\ directFailures' = [directFailures EXCEPT !.sinceExecute = TRUE]
            /\ UNCHANGED <<resetLog, slotFailed, gvars, globalFrameCounter_, globalFrames>>
       ELSE
       /\ nodes' = ns
       /\ \E failAt \in (IF NeedsCompile(compiled)
                          THEN InitFailures(full.executionOrder, ns) ELSE {0}) :
          IF failAt # 0
          THEN \* compile() failed: the frame is given up before execute()
               /\ executionOrder' = full.executionOrder
               /\ barrierBatches' = ComputeBarrierBatches(full.executionOrder, ns)
               /\ compiled' = CompiledAfterInitialization(failAt)
               /\ compileReport' = [initFailed |-> TRUE, returned |-> FALSE, path |-> "normal",
                                    backup |-> [executionOrder |-> executionOrder,
                                                compiled |-> compiled],
                                    initInvoked |-> InitInvoked(full.executionOrder, failAt),
                                    repeated |-> compileReport.path # "none",
                                    cycles |-> {}]
               /\ initialized' = initialized \cup InitSucceeded(full.executionOrder, failAt)
               /\ needed' = NoQueues
               /\ cbBegun' = NoCalls
               /\ cbEnded' = NoCalls
               /\ execReport' = NoExecReport
               /\ FrameReturnsFailed("directFailed")
               /\ unhealthyAt' = 0
               /\ directFailures' = [directFailures EXCEPT !.sinceExecute = TRUE]
               /\ UNCHANGED <<resetLog, slotFailed, gpuHealthy, globalFrameCounter_,
                              globalFrames>>
          ELSE LET order == IF NeedsCompile(compiled)
                            THEN full.executionOrder ELSE executionOrder
                   q     == analyzeQueueRequirements(order, ns)
               IN
               /\ compileReport' =
                     IF ~NeedsCompile(compiled) THEN NoCompileReport
                     ELSE [initFailed |-> FALSE, returned |-> TRUE, path |-> "normal",
                           backup |-> [executionOrder |-> executionOrder, compiled |-> compiled],
                           initInvoked |-> InitInvoked(order, 0),
                           repeated |-> compileReport.path # "none", cycles |-> {}]
               /\ IF ~NeedsCompile(compiled)
                  THEN UNCHANGED <<executionOrder, barrierBatches, compiled, initialized>>
                  ELSE /\ executionOrder' = order
                       /\ initialized' = initialized \cup InitSucceeded(order, 0)
                       /\ barrierBatches' = ComputeBarrierBatches(order, ns)
                       /\ compiled' = CompiledAfterInitialization(failAt)
               \* "globalFrame = globalFrameCounter_.fetch_add(1)", execute(.., globalFrame)
               /\ globalFrameCounter_' = FetchAdd(globalFrameCounter_)
               /\ globalFrames' = Append(globalFrames, globalFrameCounter_)
               /\ directFailures' = [sinceExecute |-> FALSE,
                                     beforeExecute |-> directFailures.sinceExecute]
               \* execute(): resetCommandBuffersForFrame, begin, node loop, end
               /\ resetLog' = [slot |-> currentFrame, unwaited |-> outstanding[currentFrame],
                               afterFailed |-> slotFailed[currentFrame], happened |-> TRUE]
               /\ slotFailed' = [slotFailed EXCEPT ![currentFrame] = FALSE]
               /\ needed' = q
               /\ cbBegun' = beginCommandBuffers(NoCalls, q.compute, q.graphics)
               /\ cbEnded' = endCommandBuffers(NoCalls, q.compute, q.graphics)
               /\ \E timedOut \in BOOLEAN :
                     LET unhealthyBefore == HealthCheckFails(timeoutDetector, gpuHealthy)
                         turnsUnhealthy  == timeoutDetector /\ gpuHealthy /\ timedOut
                     IN  /\ gpuHealthy' = (gpuHealthy /\ ~turnsUnhealthy)
                         /\ unhealthyAt' = IF unhealthyBefore THEN 1
                                           ELSE IF turnsUnhealthy THEN 2 ELSE 0
                         /\ execReport' =
                              [outcome |-> IF unhealthyBefore
                                              \/ HealthCheckFails(timeoutDetector, ~turnsUnhealthy)
                                           THEN "aborted" ELSE "completed",
                               computeCommandBufferUsed |-> q.compute,
                               graphicsCommandBufferUsed |-> q.graphics]
               /\ rpc' = "submitCompute"
               /\ UNCHANGED <<currentFrame, frameCounter, frameStates, frameOutcome>>
       /\ UNCHANGED <<timeoutDetector, fpc, nodeIdx, events, resetReport>>
    /\ UNCHANGED <<fence, outstanding, fenceQuery>>
    /\ UNCHANGED <<dvars, svars, pvars, mvars>>

\* submitFrame step 1: submitComputeWorkAsync
FrameSubmitCompute ==
    /\ rpc = "submitCompute"
    /\ IF ~execReport.computeCommandBufferUsed
       THEN /\ rpc' = "submitGraphics"
            /\ UNCHANGED <<currentFrame, frameCounter, frameStates, fence, submitted,
                           outstanding, slotFailed, frameOutcome, submitInfo>>
       ELSE \E result \in {"ok", "resetFailed", "submitFailed"} :
            CASE result = "resetFailed" ->
                    /\ FrameReturnsFailed("submitFailed")
                    /\ UNCHANGED <<fence, submitted, outstanding, slotFailed, submitInfo>>
              [] result = "submitFailed" ->
                    /\ fence' = [fence EXCEPT ![currentFrame]["compute"] = "unsignaled"]
                    /\ FrameReturnsFailed("submitFailed")
                    /\ UNCHANGED <<submitted, outstanding, slotFailed, submitInfo>>
              [] OTHER ->
                    /\ fence' = [fence EXCEPT ![currentFrame]["compute"] = "pending"]
                    /\ submitted' = submitted \cup {"compute"}
                    /\ submitInfo' = [submitInfo EXCEPT !.computeSignals =
                                                            ComputeSignalSemaphores]
                    /\ outstanding' = [outstanding EXCEPT ![currentFrame] = @ \cup {"compute"}]
                    /\ rpc' = "submitGraphics"
                    /\ UNCHANGED <<currentFrame, frameCounter, frameStates, slotFailed,
                                   frameOutcome>>
    /\ UNCHANGED <<resetLog, fenceQuery, globalFrameCounter_, globalFrames, directFailures>>
    /\ UNCHANGED gvars
    /\ UNCHANGED <<dvars, svars, pvars, mvars>>

\* submitFrame steps 2 and 3: submitGraphicsWork, presentFrame
FrameSubmitGraphics ==
    /\ rpc = "submitGraphics"
    /\ IF ~execReport.graphicsCommandBufferUsed
       THEN \* the result is that of the compute submission, or a default (failed) one
            /\ IF execReport.computeCommandBufferUsed
               THEN /\ rpc' = "finish"
                    /\ UNCHANGED <<currentFrame, frameCounter, frameStates, frameOutcome>>
               ELSE FrameReturnsFailed("submitFailed")
            /\ UNCHANGED <<fence, submitted, outstanding, slotFailed, submitInfo>>
       ELSE \E result \in {"ok", "resetFailed", "submitFailed", "presentFailed"} :
            CASE result = "resetFailed" ->
                    /\ FrameReturnsFailed("submitFailed")
                    /\ slotFailed' = [slotFailed EXCEPT ![currentFrame] = submitted # {}]
                    /\ UNCHANGED <<fence, submitted, outstanding, submitInfo>>
              [] result = "submitFailed" ->
                    /\ fence' = [fence EXCEPT ![currentFrame]["graphics"] = "unsignaled"]
                    /\ FrameReturnsFailed("submitFailed")
                    /\ slotFailed' = [slotFailed EXCEPT ![currentFrame] = submitted # {}]
                    /\ UNCHANGED <<submitted, outstanding, submitInfo>>
              [] OTHER ->
                    /\ fence' = [fence EXCEPT ![currentFrame]["graphics"] = "pending"]
                    /\ submitted' = submitted \cup {"graphics"}
                    /\ submitInfo' = [submitInfo EXCEPT
                                          !.graphicsSubmitted = TRUE,
                                          !.graphicsWaits =
                                              GraphicsWaitSemaphores(WaitForCompute(execReport))]
                    /\ outstanding' = [outstanding EXCEPT ![currentFrame] = @ \cup {"graphics"}]
                    /\ IF result = "presentFailed"
                       THEN /\ FrameReturnsFailed("submitFailed")
                            /\ slotFailed' = [slotFailed EXCEPT ![currentFrame] = TRUE]
                       ELSE /\ rpc' = "finish"
                            /\ UNCHANGED <<currentFrame, frameCounter, frameStates, slotFailed,
                                           frameOutcome>>
    /\ UNCHANGED <<resetLog, fenceQuery, globalFrameCounter_, globalFrames, directFailures>>
    /\ UNCHANGED gvars
    /\ UNCHANGED <<dvars, svars, pvars, mvars>>

\* a slot index that is advanced without the modulo
NextFrameInFlightUnwrapped(slot) == slot + 1
\* "currentFrame = (currentFrame + 1) % MAX_FRAMES_IN_FLIGHT"
NextFrameInFlight(slot) == (slot + 1) % MAX_FRAMES_IN_FLIGHT

\* drawFrameModular(): updateFrameState, frameCounter++, next slot
FrameFinish ==
    /\ rpc = "finish"
    /\ frameStates' = [frameStates EXCEPT ![currentFrame] =
                          [computeUsed |-> execReport.computeCommandBufferUsed,
                           graphicsUsed |-> execReport.graphicsCommandBufferUsed]]
    /\ frameCounter' = frameCounter + 1
    /\ currentFrame' = NextFrameInFlight(currentFrame)
    /\ rpc' = "start"
    /\ frameOutcome' = "success"
    /\ UNCHANGED <<fence, submitted, outstanding, slotFailed, resetLog, fenceQuery,
                   submitInfo, globalFrameCounter_, globalFrames, directFailures>>
    /\ UNCHANGED gvars
    /\ UNCHANGED <<dvars, svars, pvars, mvars>>

\* the GPU finishes a submission and signals its fence
GpuSignalsFence ==
    /\ \E s \in Slots, q \in Queues :
          /\ fence[s][q] = "pending"
          /\ fence' = [fence EXCEPT ![s][q] = "signaled"]
    /\ UNCHANGED <<rpc, currentFrame, frameCounter, frameStates, submitted, outstanding,
                   slotFailed, resetLog, frameOutcome, fenceQuery, submitInfo,
                   globalFrameCounter_, globalFrames, directFailures>>
    /\ UNCHANGED gvars
    /\ UNCHANGED <<dvars, svars, pvars, mvars>>

\* the recovery layer brings an unhealthy GPU back between frames
FrameGpuRecovers ==
    /\ rpc = "start"
    /\ GpuRecovers

FNext ==
    \/ FrameWait
    \/ FrameDirect
    \/ FrameSubmitCompute
    \/ FrameSubmitGraphics
    \/ FrameFinish
    \/ GpuSignalsFence
    \/ FrameGpuRecovers

(***************************************************************************)
(* Presentation surface and swapchain image cache                          *)
(***************************************************************************)
\* images of the swapchain, and most importExternalImage calls explored
MaxImages == 2
MaxImports == 4

ImageIndices == 0..(MaxImages - 1)

\* results of vkAcquireNextImageKHR and of vkQueuePresentKHR
VkAcquireResults ==
    {"VK_SUCCESS", "VK_SUBOPTIMAL_KHR", "VK_ERROR_OUT_OF_DATE_KHR", "VK_TIMEOUT",
     "VK_ERROR_DEVICE_LOST"}
VkPresentResults ==
    {"VK_SUCCESS", "VK_SUBOPTIMAL_KHR", "VK_ERROR_OUT_OF_DATE_KHR", "VK_ERROR_DEVICE_LOST"}

\* SurfaceAcquisitionResult as constructed; `returned` and `issued` tell whether the call
\* has returned and whether it issued vkAcquireNextImageKHR
NoAcquisition ==
    [returned |-> FALSE, issued |-> FALSE, success |-> FALSE, imageIndex |-> 0,
     recreationNeeded |-> FALSE, result |-> "VK_SUCCESS"]
\* SubmissionResult as constructed; `returned` tells whether presentFrame has returned
NoPresentation ==
    [returned |-> FALSE, success |-> FALSE, swapchainRecreationNeeded |-> FALSE,
     lastResult |-> "VK_SUCCESS"]

\* an acquireNextImage that clears its guard on the success path only
GuardAfterAcquireKeptOnError(vkResult) == vkResult \notin {"VK_SUCCESS", "VK_SUBOPTIMAL_KHR"}
\* "acquisitionInProgress = false" before any return
GuardAfterAcquire(vkResult) == FALSE

\* acquireNextImage: the result it builds from the VkResult
AcquisitionOf(vkResult, index) ==
    [returned |-> TRUE, issued |-> TRUE,
     success |-> vkResult \in {"VK_SUCCESS", "VK_SUBOPTIMAL_KHR"},
     imageIndex |-> IF vkResult \in {"VK_SUCCESS", "VK_SUBOPTIMAL_KHR"} THEN index ELSE 0,
     recreationNeeded |-> vkResult = "VK_ERROR_OUT_OF_DATE_KHR",
     result |-> vkResult]

\* a presentFrame that asks for recreation on out-of-date only
PresentNeedsRecreationOutOfDateOnly(vkResult, resized) ==
    vkResult = "VK_ERROR_OUT_OF_DATE_KHR" \/ resized
\* presentFrame: first branch
PresentNeedsRecreation(vkResult, resized) ==
    vkResult \in {"VK_ERROR_OUT_OF_DATE_KHR", "VK_SUBOPTIMAL_KHR"} \/ resized

\* presentFrame: the result it builds from the VkResult
PresentationOf(vkResult, resized) ==
    [returned |-> TRUE,
     success |-> PresentNeedsRecreation(vkResult, resized) \/ vkResult = "VK_SUCCESS",
     swapchainRecreationNeeded |-> PresentNeedsRecreation(vkResult, resized),
     lastResult |-> vkResult]

\* a cache that is never trusted
NeedsImportAlways(cachedId) == TRUE
\* "if (swapchainImageIds[imageIndex] == 0)"
NeedsImport(cachedId) == cachedId = 0

EmptyCache == [i \in ImageIndices |-> 0]

\* FrameGraph::importExternalImage: registers the image and returns its id, which is
\* not INVALID_RESOURCE
importExternalImage(nextId) == nextId

\* state after construction of the surface and the director
SInit ==
    /\ spc = "idle"
    /\ acquisitionInProgress = FALSE
    /\ framebufferResized = FALSE
    /\ rendererResized = FALSE
    /\ swapchainOutOfDate = FALSE
    /\ acquiresOutstanding = 0
    /\ acquisition = NoAcquisition
    /\ presentation = NoPresentation
    /\ frameGraphInitialized = FALSE
    /\ swapchainImageIds = EmptyCache
    /\ swapchainImageId = 0
    /\ nextResourceId = 1
    /\ idsUsed = [i \in ImageIndices |-> {}]
    /\ importsMade = [i \in ImageIndices |-> 0]

\* the surface while another component is exercised
SIdle == SInit

\* directFrame calls acquireNextImage: from entry to vkAcquireNextImageKHR, or to the
\* return of a call that does not get that far
AcquireBegin ==
    /\ spc \in {"idle", "retry"}
    /\ nextResourceId <= MaxImports
    /\ presentation' = NoPresentation
    /\ IF acquisitionInProgress
       THEN \* blocked: the result as constructed
            /\ acquisition' = [NoAcquisition EXCEPT !.returned = TRUE]
            /\ spc' = "idle"
            /\ UNCHANGED <<acquisitionInProgress, acquiresOutstanding>>
       ELSE IF framebufferResized
       THEN /\ acquisition' = [NoAcquisition EXCEPT !.returned = TRUE, !.recreationNeeded = TRUE]
            /\ spc' = "recover"
            /\ UNCHANGED <<acquisitionInProgress, acquiresOutstanding>>
       ELSE /\ acquisitionInProgress' = TRUE
            /\ acquiresOutstanding' = acquiresOutstanding + 1
            /\ acquisition' = [NoAcquisition EXCEPT !.issued = TRUE]
            /\ spc' = "acquiring"
    /\ UNCHANGED <<framebufferResized, rendererResized, swapchainOutOfDate, frameGraphInitialized,
                   swapchainImageIds, swapchainImageId, nextResourceId, idsUsed, importsMade>>
    /\ UNCHANGED <<gvars, fvars, dvars, pvars, mvars>>

\* what vkAcquireNextImageKHR can answer: no image of a swapchain that is out of date
AcquireResultsOf(outOfDate) ==
    IF outOfDate THEN VkAcquireResults \ {"VK_SUCCESS", "VK_SUBOPTIMAL_KHR"}
    ELSE VkAcquireResults

\* vkAcquireNextImageKHR returns; acquireNextImage returns to directFrame, which goes
\* on to setupFrameGraph or returns
AcquireEnd ==
    /\ spc = "acquiring"
    /\ \E vkResult \in AcquireResultsOf(swapchainOutOfDate), index \in ImageIndices :
          /\ acquisition' = AcquisitionOf(vkResult, index)
          /\ acquisitionInProgress' = GuardAfterAcquire(vkResult)
          /\ swapchainOutOfDate' = (swapchainOutOfDate \/ vkResult = "VK_ERROR_OUT_OF_DATE_KHR")
          /\ spc' = IF AcquisitionOf(vkResult, index).success THEN "setup"
                    ELSE IF AcquisitionOf(vkResult, index).recreationNeeded THEN "recover"
                    ELSE "idle"
    /\ acquiresOutstanding' = acquiresOutstanding - 1
    /\ UNCHANGED <<framebufferResized, rendererResized, presentation, frameGraphInitialized,
                   swapchainImageIds, swapchainImageId, nextResourceId, idsUsed, importsMade>>
    /\ UNCHANGED <<gvars, fvars, dvars, pvars, mvars>>

\* setupFrameGraph(imageIndex): the swapchain image cache
SetupFrameGraph ==
    /\ spc = "setup"
    /\ LET imageIndex == acquisition.imageIndex
           \* swapchainImageIds.resize(size, 0) keeps the entries it has
           cache == swapchainImageIds
           import == NeedsImport(cache[imageIndex])
           id == IF import THEN importExternalImage(nextResourceId) ELSE cache[imageIndex]
       IN  /\ swapchainImageIds' = [cache EXCEPT ![imageIndex] = id]
           /\ nextResourceId' = IF import THEN nextResourceId + 1 ELSE nextResourceId
           /\ swapchainImageId' = id
           /\ idsUsed' = [idsUsed EXCEPT ![imageIndex] = @ \cup {id}]
           /\ importsMade' = [importsMade EXCEPT ![imageIndex] = @ + (IF import THEN 1 ELSE 0)]
    /\ frameGraphInitialized' = TRUE
    /\ spc' = "present"
    /\ UNCHANGED <<acquisitionInProgress, framebufferResized, rendererResized, swapchainOutOfDate,
                   acquiresOutstanding, acquisition, presentation>>
    /\ UNCHANGED <<gvars, fvars, dvars, pvars, mvars>>

\* presentFrame, and drawFrameModular up to its recreation test
PresentFrame ==
    /\ spc = "present"
    /\ \E vkResult \in VkPresentResults :
          LET r == PresentationOf(vkResult, rendererResized) IN
          /\ presentation' = r
          /\ swapchainOutOfDate' = (swapchainOutOfDate \/ vkResult = "VK_ERROR_OUT_OF_DATE_KHR")
          /\ spc' = IF r.success /\ (r.swapchainRecreationNeeded \/ rendererResized)
                    THEN "recreate" ELSE "idle"
    /\ UNCHANGED <<acquisitionInProgress, framebufferResized, rendererResized,
                   acquiresOutstanding, acquisition, frameGraphInitialized,
                   swapchainImageIds, swapchainImageId, nextResourceId, idsUsed, importsMade>>
    /\ UNCHANGED <<gvars, fvars, dvars, pvars, mvars>>

\* a recreateSwapchain that leaves the resize flag as it is
ResizedAfterRecreateKept(recreated, resized) == resized
\* recreateSwapchain: "framebufferResized = false" on its successful return only
ResizedAfterRecreate(recreated, resized) == IF recreated THEN FALSE ELSE resized

\* drawFrameModular after a present that asks for it: recreateSwapchain, which may fail
RecreateSwapchain ==
    /\ spc = "recreate"
    /\ \E recreated \in BOOLEAN :
          /\ framebufferResized' = ResizedAfterRecreate(recreated, framebufferResized)
          /\ rendererResized' = IF recreated THEN FALSE ELSE rendererResized
          /\ swapchainOutOfDate' = IF recreated THEN FALSE ELSE swapchainOutOfDate
    /\ spc' = "idle"
    /\ UNCHANGED <<acquisitionInProgress, acquiresOutstanding, acquisition, presentation,
                   frameGraphInitialized, swapchainImageIds, swapchainImageId, nextResourceId,
                   idsUsed, importsMade>>
    /\ UNCHANGED <<gvars, fvars, dvars, pvars, mvars>>

\* handleFrameFailure after an acquisition that asked for recreation: the recovery layer
\* recreates the swapchain and has the director try the frame again; if the recreation
\* fails the frame is given up
RecoverSwapchain ==
    /\ spc = "recover"
    /\ \E recreated \in BOOLEAN :
          /\ framebufferResized' = ResizedAfterRecreate(recreated, framebufferResized)
          /\ swapchainOutOfDate' = IF recreated THEN FALSE ELSE swapchainOutOfDate
          /\ spc' = IF recreated THEN "retry" ELSE "idle"
    /\ acquisition' = NoAcquisition
    /\ UNCHANGED <<acquisitionInProgress, rendererResized, acquiresOutstanding,
                   presentation, frameGraphInitialized, swapchainImageIds, swapchainImageId,
                   nextResourceId, idsUsed, importsMade>>
    /\ UNCHANGED <<gvars, fvars, dvars, pvars, mvars>>

\* resetSwapchainCache
ResetSwapchainCache ==
    /\ spc = "idle"
    /\ swapchainImageIds # EmptyCache
    /\ swapchainImageIds' = EmptyCache
    /\ idsUsed' = [i \in ImageIndices |-> {}]
    /\ importsMade' = [i \in ImageIndices |-> 0]
    /\ acquisition' = NoAcquisition
    /\ presentation' = NoPresentation
    /\ UNCHANGED <<spc, acquisitionInProgress, framebufferResized, rendererResized,
                   swapchainOutOfDate, acquiresOutstanding, frameGraphInitialized,
                   swapchainImageId, nextResourceId>>
    /\ UNCHANGED <<gvars, fvars, dvars, pvars, mvars>>

\* setFramebufferResized(true), from the window event loop between frames
SetFramebufferResized ==
    /\ spc = "idle"
    /\ ~(framebufferResized /\ rendererResized)
    /\ framebufferResized' = TRUE
    /\ rendererResized' = TRUE
    /\ acquisition' = NoAcquisition
    /\ presentation' = NoPresentation
    /\ UNCHANGED <<spc, acquisitionInProgress, swapchainOutOfDate, acquiresOutstanding,
                   frameGraphInitialized, swapchainImageIds, swapchainImageId, nextResourceId,
                   idsUsed, importsMade>>
    /\ UNCHANGED <<gvars, fvars, dvars, pvars, mvars>>

SNext ==
    \/ AcquireBegin
    \/ AcquireEnd
    \/ SetupFrameGraph
    \/ PresentFrame
    \/ RecreateSwapchain
    \/ RecoverSwapchain
    \/ ResetSwapchainCache
    \/ SetFramebufferResized

(***************************************************************************)
(* Cached pipeline of a node: ensurePipeline                               *)
(***************************************************************************)
\* distinct non-null handles of each kind that the managers hand out
MaxHandles == 2

Handles == 0..MaxHandles
NodeKinds == {"movement", "physics", "graphics"}

\* the cached fields as one record
PipelineCache ==
    [dirty |-> pipelineDirty, descriptorLayout |-> cachedDescriptorLayout,
     renderPass |-> cachedRenderPass, pipeline |-> cachedPipeline,
     pipelineLayout |-> cachedPipelineLayout, swapchainFormat |-> cachedSwapchainFormat]

\* what the managers and the swapchain answer during one call
ManagerAnswers(kind) ==
    [manager : BOOLEAN,
     format : IF kind = "graphics" THEN 1..MaxHandles ELSE {0},
     descriptorLayout : Handles,
     renderPass : IF kind = "graphics" THEN 0..1 ELSE {0},
     pipeline : Handles,
     pipelineLayout : 0..1]

\* "if (currentFormat != cachedSwapchainFormat)", "if (descriptorLayout != cachedDescriptorLayout)"
HandleChanged(resolved, cached) == resolved # cached

\* a rebuild that accepts a null pipeline layout
RebuildSucceededWithPipelineOnly(pipeline, pipelineLayout) == pipeline # 0
\* "if (pipeline == VK_NULL_HANDLE || pipelineLayout == VK_NULL_HANDLE) return false"
RebuildSucceeded(pipeline, pipelineLayout) == pipeline # 0 /\ pipelineLayout # 0

\* ensurePipeline() of a node of the given kind: the cache it leaves, its return value,
\* and whether it saw a changed handle and tried a rebuild
ensurePipeline(kind, cache, answer) ==
    LET unchanged == [cache |-> cache, ok |-> FALSE, changed |-> FALSE, rebuild |-> "none"]
        formatChanged ==
            kind = "graphics" /\ HandleChanged(answer.format, cache.swapchainFormat)
        layoutChanged == HandleChanged(answer.descriptorLayout, cache.descriptorLayout)
        afterFormat == [cache EXCEPT !.dirty = cache.dirty \/ formatChanged]
        afterLayout == [afterFormat EXCEPT !.dirty = afterFormat.dirty \/ layoutChanged]
    IN  IF ~answer.manager THEN unchanged
        ELSE IF answer.descriptorLayout = 0
        THEN [unchanged EXCEPT !.cache = afterFormat, !.changed = formatChanged]
        ELSE IF ~afterLayout.dirty
        THEN [cache |-> afterLayout,
              ok |-> /\ cache.pipeline # 0
                     /\ cache.pipelineLayout # 0
                     /\ (kind = "graphics" => cache.renderPass # 0),
              changed |-> FALSE, rebuild |-> "none"]
        ELSE IF \/ (kind = "graphics" /\ answer.renderPass = 0)
                \/ ~RebuildSucceeded(answer.pipeline, answer.pipelineLayout)
        THEN [cache |-> afterLayout, ok |-> FALSE,
              changed |-> formatChanged \/ layoutChanged, rebuild |-> "failed"]
        ELSE [cache |-> [dirty |-> FALSE,
                         descriptorLayout |-> answer.descriptorLayout,
                         renderPass |-> answer.renderPass,
                         pipeline |-> answer.pipeline,
                         pipelineLayout |-> answer.pipelineLayout,
                         swapchainFormat |-> answer.format],
              ok |-> TRUE, changed |-> formatChanged \/ layoutChanged, rebuild |-> "ok"]

NoPipelineCall ==
    [op |-> "none", ok |-> FALSE, changed |-> FALSE, rebuild |-> "none", bound |-> FALSE]

\* the node as constructed
PInit ==
    /\ pKind \in NodeKinds
    /\ pipelineDirty = TRUE
    /\ cachedDescriptorLayout = 0
    /\ cachedRenderPass = 0
    /\ cachedPipeline = 0
    /\ cachedPipelineLayout = 0
    /\ cachedSwapchainFormat = 0
    /\ pipelineCall = NoPipelineCall

\* the pipeline cache while another component is exercised
PIdle == PInit /\ pKind = "movement"

\* the cache after a call
StoreCache(cache) ==
    /\ pipelineDirty' = cache.dirty
    /\ cachedDescriptorLayout' = cache.descriptorLayout
    /\ cachedRenderPass' = cache.renderPass
    /\ cachedPipeline' = cache.pipeline
    /\ cachedPipelineLayout' = cache.pipelineLayout
    /\ cachedSwapchainFormat' = cache.swapchainFormat

\* initializeNode: "return ensurePipeline()"
PInitializeNode ==
    /\ \E answer \in ManagerAnswers(pKind) :
          \E r \in {ensurePipeline(pKind, PipelineCache, answer)} :
              /\ StoreCache(r.cache)
              /\ pipelineCall' = [op |-> "initializeNode", ok |-> r.ok, changed |-> r.changed,
                                  rebuild |-> r.rebuild, bound |-> FALSE]
    /\ UNCHANGED pKind
    /\ UNCHANGED <<gvars, fvars, dvars, svars, mvars>>

\* execute(): the checks before ensurePipeline, ensurePipeline, the checks between it and
\* vkCmdBindPipeline, and the bind
PExecute ==
    /\ \E reached \in {"returnsBefore", "returnsAfter", "binds"} :
          IF reached = "returnsBefore"
          THEN /\ pipelineCall' = [NoPipelineCall EXCEPT !.op = "execute"]
               /\ UNCHANGED <<pipelineDirty, cachedDescriptorLayout, cachedRenderPass,
                              cachedPipeline, cachedPipelineLayout, cachedSwapchainFormat>>
          ELSE \E answer \in ManagerAnswers(pKind) :
                 \E r \in {ensurePipeline(pKind, PipelineCache, answer)} :
                     /\ StoreCache(r.cache)
                     /\ pipelineCall' = [op |-> "execute", ok |-> r.ok, changed |-> r.changed,
                                         rebuild |-> r.rebuild,
                                         bound |-> r.ok /\ reached = "binds"]
    /\ UNCHANGED pKind
    /\ UNCHANGED <<gvars, fvars, dvars, svars, mvars>>

\* invalidatePipelineCache(), which the physics and the graphics node have
PInvalidate ==
    /\ pKind \in {"physics", "graphics"}
    /\ pipelineDirty' = TRUE
    /\ pipelineCall' = [NoPipelineCall EXCEPT !.op = "invalidatePipelineCache"]
    /\ UNCHANGED <<pKind, cachedDescriptorLayout, cachedRenderPass, cachedPipeline,
                   cachedPipelineLayout, cachedSwapchainFormat>>
    /\ UNCHANGED <<gvars, fvars, dvars, svars, mvars>>

PNext ==
    \/ PInitializeNode
    \/ PExecute
    \/ PInvalidate

(***************************************************************************)
(* GPU entity manager: staging and upload                                  *)
(***************************************************************************)
\* most calls on the manager that are followed
MaxEntityCalls == 4

\* sizes of the entity vectors handed to addEntitiesFromECS
BatchCounts == {1, 2, 65536, 131071, 300000}
\* a vector of entities that all have, or all lack, the three components
Batches == [count : BatchCounts, complete : BOOLEAN]

NoEntityCall == [op |-> "none", calls |-> 0]

\* an addEntitiesFromECS that stages every entity it is given
StageWithoutLimit(active, staged, batch) ==
    IF batch.complete THEN staged + batch.count ELSE staged
\* addEntitiesFromECS: stagingEntities.size() after the loop.  The loop breaks at the
\* first entity for which activeEntityCount + stagingEntities.size() >= MAX_ENTITIES
\* and stages one entity per iteration otherwise
StageBatch(active, staged, batch) ==
    IF batch.complete
    THEN staged + Min(batch.count, IF active + staged >= MAX_ENTITIES
                                   THEN 0 ELSE MAX_ENTITIES - (active + staged))
    ELSE staged

EInit ==
    /\ activeEntityCount = 0
    /\ stagingEntities = 0
    /\ entityCall = NoEntityCall
EIdle == EInit

EntityCalled(op) ==
    /\ entityCall.calls < MaxEntityCalls
    /\ entityCall' = [op |-> op, calls |-> entityCall.calls + 1]

AddEntitiesFromECS ==
    /\ EntityCalled("addEntitiesFromECS")
    /\ \E batch \in Batches :
          stagingEntities' = StageBatch(activeEntityCount, stagingEntities, batch)
    /\ UNCHANGED activeEntityCount
    /\ UNCHANGED <<gvars, fvars, dvars, svars, pvars, cvars>>

\* uploadPendingEntities, called by drawFrameModular when hasPendingUploads()
UploadPendingEntities ==
    /\ EntityCalled("uploadPendingEntities")
    /\ IF stagingEntities = 0
       THEN UNCHANGED <<activeEntityCount, stagingEntities>>
       ELSE /\ activeEntityCount' = activeEntityCount + stagingEntities
            /\ stagingEntities' = 0
    /\ UNCHANGED <<gvars, fvars, dvars, svars, pvars, cvars>>

ClearAllEntities ==
    /\ EntityCalled("clearAllEntities")
    /\ stagingEntities' = 0
    /\ activeEntityCount' = 0
    /\ UNCHANGED <<gvars, fvars, dvars, svars, pvars, cvars>>

ENext == AddEntitiesFromECS \/ UploadPendingEntities \/ ClearAllEntities

(***************************************************************************)
(* Pipeline managers: recreatePipelineCache                                *)
(***************************************************************************)
\* most recreatePipelineCache calls that are followed
MaxRecreateCalls == 4

Managers == {"compute", "graphics"}

\* a recreatePipelineCache that clears its guard on the successful return only
GuardAfterFailedCreateKept(manager) == TRUE
\* isRecreating_ when vulkan_raii::create_pipeline_cache has returned a null handle
GuardAfterFailedCreate(manager) == manager = "compute"

\* state after initialize() of both managers
CInit ==
    /\ context = [m \in Managers |-> TRUE]
    /\ isRecreating_ = [m \in Managers |-> FALSE]
    /\ pipelineCache_ = [m \in Managers |-> TRUE]
    /\ recreateLog = <<>>
CIdle == CInit

Returned(manager, how) == Append(recreateLog, [manager |-> manager, returned |-> how])

\* recreatePipelineCache() of one manager; `created` is whether
\* vulkan_raii::create_pipeline_cache returns a handle
RecreatePipelineCache ==
    /\ Len(recreateLog) < MaxRecreateCalls
    /\ \E m \in Managers, created \in BOOLEAN :
          IF ~context[m]
          THEN /\ recreateLog' = Returned(m, "noContext")
               /\ UNCHANGED <<isRecreating_, pipelineCache_>>
          ELSE IF isRecreating_[m]
          THEN /\ recreateLog' = Returned(m, "skipped")
               /\ UNCHANGED <<isRecreating_, pipelineCache_>>
          ELSE /\ pipelineCache_' = [pipelineCache_ EXCEPT ![m] = created]
               /\ isRecreating_' = [isRecreating_ EXCEPT ![m] =
                                        IF created THEN FALSE ELSE GuardAfterFailedCreate(m)]
               /\ recreateLog' = Returned(m, IF created THEN "recreated" ELSE "failed")
    /\ UNCHANGED context
    /\ UNCHANGED <<gvars, fvars, dvars, svars, pvars, evars>>

\* cleanupBeforeContextDestruction() of one manager
CleanupBeforeContextDestruction ==
    /\ \E m \in Managers :
          /\ context[m]
          /\ context' = [context EXCEPT ![m] = FALSE]
          /\ pipelineCache_' = [pipelineCache_ EXCEPT ![m] = FALSE]
    /\ UNCHANGED <<isRecreating_, recreateLog>>
    /\ UNCHANGED <<gvars, fvars, dvars, svars, pvars, evars>>

CNext == RecreatePipelineCache \/ CleanupBeforeContextDestruction

\* the managers while another component is exercised
MIdle == EIdle /\ CIdle

(***************************************************************************)
(* Specifications                                                          *)
(***************************************************************************)
vars == <<gvars, fvars, dvars, svars, pvars, mvars>>

\* the frame graph driven through its public interface
Init == GInit /\ FrameInit /\ DIdle /\ SIdle /\ PIdle /\ MIdle
Spec == Init /\ [][GNext]_vars

\* the renderer's frame loop
InitFrame == GInit /\ FrameInit /\ DIdle /\ SIdle /\ PIdle /\ MIdle
SpecFrame == InitFrame /\ [][FNext]_vars

\* node sets the frame graph may hold when the frame loop starts: none (the director
\* then registers its four), graphics nodes only, compute nodes only
RegisteredGraphs ==
    {<<>>,
     <<"EntityGraphicsNode", "SwapchainPresentNode">>,
     <<"EntityComputeNode", "PhysicsComputeNode">>}

\* the frame graph after FrameGraph::initialize and the registration of one of these sets
GInitRegistered ==
    /\ nodes \in RegisteredGraphs
    /\ executionOrder = <<>>
    /\ compiled = FALSE
    /\ barrierBatches = {}
    /\ timeoutDetector \in BOOLEAN
    /\ gpuHealthy = TRUE
    /\ fpc = "idle"
    /\ nodeIdx = 0
    /\ needed = NoQueues
    /\ cbBegun = NoCalls
    /\ cbEnded = NoCalls
    /\ events = <<>>
    /\ unhealthyAt = 0
    /\ execReport = NoExecReport
    /\ compileReport = NoCompileReport
    /\ resetReport = NoResetReport
    /\ initialized = {}

\* the renderer's frame loop over a frame graph of any queue usage
InitFrameAnyGraph == GInitRegistered /\ FrameInit /\ DIdle /\ SIdle /\ PIdle /\ MIdle
SpecFrameAnyGraph == InitFrameAnyGraph /\ [][FNext]_vars

\* most nodes of a synthetic graph
MaxCycleNodes == 5

\* synthetic graphs: registrations, in any order, of distinct classes among the halves
\* of two cycles, a consumer of the first cycle and a node that depends on nothing
CycleClasses ==
    {"CycleNodeA", "CycleNodeB", "CycleNodeC", "CycleNodeD", "CycleConsumer",
     "SwapchainPresentNode"}
CycleGraphs ==
    {q \in UNION {[1..n -> CycleClasses] : n \in 1..MaxCycleNodes} :
        \A i, j \in DOMAIN q : i # j => q[i] # q[j]}

\* the frame graph after FrameGraph::initialize and the registration of a synthetic graph
GInitCycles ==
    /\ nodes \in CycleGraphs
    /\ executionOrder = <<>>
    /\ compiled = FALSE
    /\ barrierBatches = {}
    /\ timeoutDetector = FALSE
    /\ gpuHealthy = TRUE
    /\ fpc = "idle"
    /\ nodeIdx = 0
    /\ needed = NoQueues
    /\ cbBegun = NoCalls
    /\ cbEnded = NoCalls
    /\ events = <<>>
    /\ unhealthyAt = 0
    /\ execReport = NoExecReport
    /\ compileReport = NoCompileReport
    /\ resetReport = NoResetReport
    /\ initialized = {}

\* compile() and reset() on synthetic graphs with dependency cycles
CycleNext == Compile \/ Reset
InitCycles == GInitCycles /\ FrameInit /\ DIdle /\ SIdle /\ PIdle /\ MIdle
SpecCycles == InitCycles /\ [][CycleNext]_vars

\* frames of the presentation surface and the director's swapchain image cache
InitSurface == GIdle /\ FrameInit /\ DIdle /\ SInit /\ PIdle /\ MIdle
SpecSurface == InitSurface /\ [][SNext]_vars

\* the same frames where the main loop keeps calling drawFrame, a recreation that is
\* attempted again and again succeeds at some time, and the driver does not time out or
\* lose the device for ever
RecreationSucceeds ==
    /\ spc \in {"recover", "recreate"}
    /\ RecreateSwapchain \/ RecoverSwapchain
    /\ ~swapchainOutOfDate' /\ ~framebufferResized'
AcquireAnswers ==
    AcquireEnd /\ acquisition'.result \notin {"VK_TIMEOUT", "VK_ERROR_DEVICE_LOST"}
AcquireSucceeds == AcquireEnd /\ acquisition'.success
SurfaceFairness ==
    /\ WF_vars(AcquireBegin) /\ WF_vars(AcquireEnd) /\ WF_vars(SetupFrameGraph)
    /\ WF_vars(PresentFrame) /\ WF_vars(RecreateSwapchain) /\ WF_vars(RecoverSwapchain)
    /\ SF_vars(RecreationSucceeds) /\ SF_vars(AcquireAnswers) /\ SF_vars(AcquireSucceeds)
InitSurfaceLive == GIdle /\ FrameInit /\ DIdle /\ SInit /\ PIdle /\ MIdle
SpecSurfaceLive == InitSurfaceLive /\ [][SNext]_vars /\ SurfaceFairness

\* the cached pipeline of one node over its initializeNode, execute and invalidation calls
InitPipeline == GIdle /\ FrameInit /\ DIdle /\ SIdle /\ PInit /\ MIdle
SpecPipeline == InitPipeline /\ [][PNext]_vars

\* one execute() of a compute node or of the graphics node
InitDispatch == GIdle /\ FrameInit /\ DInit /\ SIdle /\ PIdle /\ MIdle
SpecDispatch == InitDispatch /\ [][DNext]_vars

\* the entity manager over its staging, upload and clear calls
InitEntities == GIdle /\ FrameInit /\ DIdle /\ SIdle /\ PIdle /\ EInit /\ CIdle
SpecEntities == InitEntities /\ [][ENext]_vars

\* the pipeline managers over their recreatePipelineCache calls
InitPipelineCache == GIdle /\ FrameInit /\ DIdle /\ SIdle /\ PIdle /\ EIdle /\ CInit
SpecPipelineCache == InitPipelineCache /\ [][CNext]_vars

\* the same execute(), with every ceiling the timeout detector can recommend
InitDispatchAnyCeiling == GIdle /\ FrameInit /\ DInitAnyCeiling /\ SIdle /\ PIdle /\ MIdle
SpecDispatchAnyCeiling == InitDispatchAnyCeiling /\ [][DNext]_vars

(***************************************************************************)
(* Properties of the compute-dispatch nodes                                *)
(***************************************************************************)
RECURSIVE SumGroups(_)
SumGroups(ds) == IF ds = <<>> THEN 0 ELSE ds[1].groups + SumGroups(Tail(ds))

\* commands of dispatch number idx, and the vkCmdDispatch calls among them
PassCmds(idx) == SelectSeq(cmds, LAMBDA c : c.op # "bind" /\ c.pass = idx)
PassDispatches(idx) == SelectSeq(cmds, LAMBDA c : c.op = "dispatch" /\ c.pass = idx)

\* ceil(E / threads) as a number, without the uint32_t wrap of E + threads - 1
WorkgroupRange(e) ==
    U32Val(U32Div(e, THREADS_PER_WORKGROUP)) + (IF e.lo % THREADS_PER_WORKGROUP = 0 THEN 0 ELSE 1)

\* E + threads - 1 does not wrap: E <= 2^32 - threads
NoWrap(e) == ~(e.hi = HALF - 1 /\ e.lo + THREADS_PER_WORKGROUP - 1 >= HALF)

\* the chunks of a finished chunked dispatch partition [0, ceil(E/threads))
ChunksPartition(idx) ==
    LET ds == PassDispatches(idx)
        e  == PassElementCount(PassModes(dKind)[idx], entityCount)
    IN  /\ \A i \in 1..Len(ds) :
              ds[i].offset = THREADS_PER_WORKGROUP * SumGroups(SubSeq(ds, 1, i - 1))
        /\ \A i \in 1..Len(ds) : ds[i].groups >= 1
        /\ SumGroups(ds) = WorkgroupRange(e)

ChunkedPasses == {i \in 1..Len(passLog) : passLog[i].outcome = "chunked"}

C7_LimitGuard ==
    \A idx \in 1..Len(PassModes(dKind)) :
        CalcTotalWorkgroups(PassElementCount(PassModes(dKind)[idx], entityCount)) > 65535
            => PassDispatches(idx) = <<>>

\* execute() has returned after refusing a dispatch in the movement node, or after
\* refusing one in the physics node while recording others
C7_Witness ==
    /\ dpc = "done"
    /\ \E i \in 1..Len(passLog) : passLog[i].outcome = "refused"
    /\ dKind = "physics" => \E i \in 1..Len(cmds) : cmds[i].op = "dispatch"

\* C8 as stated: within one physics execute(), once a pass is refused because its total
\* workgroup count exceeds 65535, no later pass of that execute() issues a dispatch.
C8_NoDispatchAfterRefusal ==
    dKind = "physics" =>
        \A i \in 1..Len(passLog) : \A k \in 1..Len(cmds) :
            (passLog[i].outcome = "refused" /\ cmds[k].op = "dispatch")
                => cmds[k].pass < passLog[i].pass

\* the pass order written out: Integrate, Clear Spatial, Build Spatial,
\* 8 x (Solve Distance, Solve Area, Collide), Finalize
ExpectedPassOrder ==
    <<0, 1, 2,
      3, 4, 5,  3, 4, 5,  3, 4, 5,  3, 4, 5,
      3, 4, 5,  3, 4, 5,  3, 4, 5,  3, 4, 5,
      6>>

\* the passes that recorded at least one dispatch, in recording order
RECURSIVE RecordedPasses(_, _)
RecordedPasses(cs, last) ==
    IF cs = <<>> THEN <<>>
    ELSE IF cs[1].op = "dispatch" /\ cs[1].pass # last
         THEN <<cs[1].mode>> \o RecordedPasses(Tail(cs), cs[1].pass)
         ELSE RecordedPasses(Tail(cs), last)

\* the commands of one pass: its dispatches (with inter-chunk barriers only between
\* them), closed by exactly one trailing barrier
WellFormedPass(idx) ==
    LET cs == PassCmds(idx)
    IN  /\ cs # <<>>
        /\ cs[Len(cs)].op = "barrier" /\ ~cs[Len(cs)].interChunk
        /\ \A k \in 1..(Len(cs) - 1) : cs[k].op = "dispatch" \/ cs[k].interChunk

\* commands of different passes are not interleaved and follow the pass order
PassesInOrder ==
    \A k \in 2..Len(cmds) : \A j \in 2..(k - 1) : cmds[j].pass <= cmds[k].pass

Dispatches == SelectSeq(cmds, LAMBDA c : c.op = "dispatch")

\* C22: in an execute() whose timeout detector is present and reports the GPU unhealthy,
\* every vkCmdDispatch recorded has a workgroup count of at most 512
C22_UnhealthyDispatchesCapped ==
    (detector.present /\ ~detector.healthy) =>
        \A k \in 1..Len(Dispatches) : Dispatches[k].groups <= 512

\* an execute() on an unhealthy GPU, with a default ceiling above 512, has split a pass
\* of more than 512 workgroups into chunks of 512
C22_Witness ==
    /\ dpc = "done"
    /\ detector.present /\ ~detector.healthy
    /\ adaptiveMaxWorkgroups > 512
    /\ \E k \in 1..(Len(Dispatches) - 1) :
          /\ Dispatches[k].groups = 512
          /\ Dispatches[k + 1].pass = Dispatches[k].pass

\* the pass of the given index has returned from its chunked dispatch
ChunkedPassDone(idx) == \E i \in ChunkedPasses : passLog[i].pass = idx

\* C23: a chunked dispatch that issued n >= 1 chunks has recorded, after each chunk but
\* the last, exactly one barrier to the compute stage with read|write access and then
\* the next chunk, and after the last chunk exactly one barrier, whose destination is
\* that of the non-chunked dispatch of the same pass
C23_ChunkBarriers ==
    \A idx \in 1..Len(PassModes(dKind)) :
        (ChunkedPassDone(idx) /\ PassDispatches(idx) # <<>>) =>
            LET cs == PassCmds(idx)
                n  == Len(PassDispatches(idx))
            IN  /\ Len(cs) = 2 * n
                /\ \A k \in 1..n : cs[2 * k - 1].op = "dispatch"
                /\ \A k \in 1..(n - 1) :
                      /\ cs[2 * k].op = "barrier"
                      /\ cs[2 * k].dst = "COMPUTE_SHADER"
                      /\ cs[2 * k].dstAccess = {"SHADER_READ", "SHADER_WRITE"}
                /\ cs[2 * n].op = "barrier"
                /\ cs[2 * n].dst = FinalBarrierDst(PassModes(dKind)[idx])
                /\ cs[2 * n].dstAccess = FinalBarrierAccess(PassModes(dKind)[idx])

\* chunked dispatches of three chunks or more have returned, one of them handing over
\* to a stage other than the compute stage
C23_Witness ==
    \E idx \in 1..Len(PassModes(dKind)) :
        /\ ChunkedPassDone(idx)
        /\ Len(PassDispatches(idx)) >= 3
        /\ FinalBarrierDst(PassModes(dKind)[idx]) # "COMPUTE_SHADER"

\* the command at position k is the barrier that ends its pass
IsTrailingBarrier(k) ==
    /\ cmds[k].op = "barrier"
    /\ \E i \in 1..Len(passLog) :
          passLog[i].pass = cmds[k].pass /\ passLog[i].outcome \in {"single", "chunked"}
    /\ \A j \in (k + 1)..Len(cmds) : cmds[j].pass # cmds[k].pass

\* C24: among the barriers recorded by one physics execute(), the trailing barrier of
\* the Finalize pass targets VERTEX_INPUT with vertex-attribute-read access and is the
\* only one that does; the trailing barrier of every other pass and every inter-chunk
\* barrier targets the compute-shader stage
C24_OnlyFinalizeTargetsVertexInput ==
    dKind = "physics" =>
        \A k \in 1..Len(cmds) :
            cmds[k].op = "barrier" =>
                IF IsTrailingBarrier(k) /\ ExpectedPassOrder[cmds[k].pass] = 6
                THEN /\ cmds[k].dst = "VERTEX_INPUT"
                     /\ cmds[k].dstAccess = {"VERTEX_ATTRIBUTE_READ"}
                ELSE /\ cmds[k].dst = "COMPUTE_SHADER"
                     /\ "VERTEX_ATTRIBUTE_READ" \notin cmds[k].dstAccess

\* a physics execute() has returned with every pass recorded, the Finalize pass in two
\* chunks or more: it holds inter-chunk barriers of the Finalize pass and its trailing one
C24_Witness ==
    /\ dKind = "physics" /\ dpc = "done"
    /\ Len(PassDispatches(Len(ExpectedPassOrder))) >= 2
    /\ IsTrailingBarrier(Len(cmds))
    /\ cmds[Len(cmds)].dst = "VERTEX_INPUT"
    /\ \A idx \in 1..Len(ExpectedPassOrder) : PassDispatches(idx) # <<>>

Draws == SelectSeq(cmds, LAMBDA c : c.op = "drawIndexed")

\* C26: with an entity count of 0 the movement node's and the physics node's execute()
\* record no vkCmdDispatch and the graphics node's execute() records no draw call
C26_NoEntitiesNoWork ==
    entityCount = U32Of(0) => Dispatches = <<>> /\ Draws = <<>>

\* a physics execute() has returned with an entity count of 0: none of its passes,
\* the Clear Spatial pass over the 4096 cells included, was dispatched
C26_Witness ==
    /\ dKind = "physics"
    /\ entityCount = U32Of(0)
    /\ dpc = "done"
    /\ cmds = <<>>

(***************************************************************************)
(* Properties of the frame graph                                           *)
(***************************************************************************)
\* C1: if initializeNode of a node of the newly computed order returns false during
\* compile(), compile() returns false and leaves the execution order and the compiled
\* flag as they were immediately before the call, on the normal and on the partial path.
C1_InitFailureRollsBack ==
    compileReport.initFailed =>
        /\ ~compileReport.returned
        /\ executionOrder = compileReport.backup.executionOrder
        /\ compiled = compileReport.backup.compiled

\* the calls execute() makes on the nodes of an order when nothing aborts it
RECURSIVE LifecycleEvents(_)
LifecycleEvents(order) ==
    IF order = <<>> THEN <<>>
    ELSE <<Event("prepareFrame", Head(order)), Event("insertBarriers", Head(order)),
           Event("execute", Head(order)), Event("releaseFrame", Head(order))>>
         \o LifecycleEvents(Tail(order))

\* C2: an execute() that is not aborted for GPU health makes, for each node of the
\* execution order in that order, exactly the calls prepareFrame, barrier insertion,
\* execute, releaseFrame, once each, a node's four calls all before the next node's first.
C2_NodeLifecycleOrder ==
    execReport.outcome = "completed" => events = LifecycleEvents(executionOrder)

C2_Witness ==
    /\ execReport.outcome = "completed"
    /\ Len(executionOrder) >= 2
    /\ Len(events) = 4 * Len(executionOrder)

ExecuteInvoked(k) == \E i \in 1..Len(events) : events[i] = Event("execute", executionOrder[k])

\* C3: when the GPU is found unhealthy in a frame before the execute of the node at
\* position K is invoked, no node after position K has its execute invoked in that frame
\* and every node before position K has had its execute invoked.
C3_AbortAtUnhealthy ==
    (execReport.outcome \in {"running", "aborted", "completed"} /\ unhealthyAt # 0) =>
        \A k \in 1..Len(executionOrder) :
            /\ k > unhealthyAt => ~ExecuteInvoked(k)
            /\ k < unhealthyAt => ExecuteInvoked(k)

C3_Witness ==
    /\ execReport.outcome = "aborted"
    /\ unhealthyAt >= 2
    /\ unhealthyAt < Len(executionOrder)
    /\ ExecuteInvoked(unhealthyAt - 1)

\* C4: every command buffer execute() begins is ended exactly once before execute()
\* returns, on the normal and on the abort path, and none is ended that was not begun.
C4_BeginEndBalanced ==
    /\ \A q \in Queues : cbEnded[q] <= cbBegun[q] /\ cbBegun[q] <= 1
    /\ execReport.outcome \in {"completed", "aborted", "notCompiled"} => cbEnded = cbBegun

C4_Witness ==
    /\ execReport.outcome = "aborted"
    /\ cbBegun = [compute |-> 1, graphics |-> 0]
    /\ cbEnded = cbBegun
    /\ events # <<>>

\* position k of the order reads a resource, and a position up to k writes it
ReadsAt(order, ns, k, r) == r \in NodeClass[ns[order[k]]].inputs
WrittenUpTo(order, ns, k, r) == \E j \in 1..k : r \in NodeClass[ns[order[j]]].outputs
WrittenInOrder(order, ns, r) == WrittenUpTo(order, ns, Len(order), r)

\* C16 as stated: in a compiled graph every declared input of every node of the
\* execution order is declared as an output by a node at or before its position
C16_AsStated ==
    compiled =>
        \A k \in 1..Len(executionOrder), r \in Resources :
            ReadsAt(executionOrder, nodes, k, r) => WrittenUpTo(executionOrder, nodes, k, r)

\* C16: in a compiled graph every declared input of a node of the execution order that
\* some node of the execution order declares as an output is declared as an output by a
\* node at or before the reader's position
C16_InputsProduced ==
    compiled =>
        \A k \in 1..Len(executionOrder), r \in Resources :
            (ReadsAt(executionOrder, nodes, k, r) /\ WrittenInOrder(executionOrder, nodes, r))
                => WrittenUpTo(executionOrder, nodes, k, r)

\* a compiled graph in which a node reads what a node before it writes and also a
\* resource no node writes
C16_Witness ==
    /\ compiled
    /\ \E k \in 2..Len(executionOrder), r \in Resources :
          /\ ReadsAt(executionOrder, nodes, k, r)
          /\ WrittenUpTo(executionOrder, nodes, k - 1, r)
          /\ r \notin NodeClass[nodes[executionOrder[k]]].outputs
    /\ \E k \in 1..Len(executionOrder), r \in Resources :
          /\ ReadsAt(executionOrder, nodes, k, r)
          /\ ~WrittenInOrder(executionOrder, nodes, r)

\* position in events of a node's execute call; 0 if it has not been made
ExecuteIndex(id) ==
    IF \E i \in 1..Len(events) : events[i] = Event("execute", id)
    THEN CHOOSE i \in 1..Len(events) : events[i] = Event("execute", id)
    ELSE 0

\* a barrier covering r is recorded after event number lo and before event number hi
BarrierRecordedBetween(r, lo, hi) ==
    \E i \in (lo + 1)..(hi - 1) :
        /\ events[i].call = "insertBarriers"
        /\ r \in insertBarriersForNode(barrierBatches, events[i].node)

\* C17: in a frame executed on a compiled graph, whenever an earlier node of the order
\* writes a resource and a later node reads it, a barrier covering the resource is
\* recorded after the writer's execute and before the reader's execute
C17_BarrierBetweenWriteAndRead ==
    (compiled /\ execReport.outcome \in {"running", "aborted", "completed"}) =>
        \A j, k \in 1..Len(executionOrder), r \in Resources :
            (/\ j < k
             /\ r \in NodeClass[nodes[executionOrder[j]]].outputs
             /\ ReadsAt(executionOrder, nodes, k, r)
             /\ ExecuteIndex(executionOrder[k]) # 0)
            => BarrierRecordedBetween(r, ExecuteIndex(executionOrder[j]),
                                      ExecuteIndex(executionOrder[k]))

IdsOf(ns, classes) == {n \in NodeIds(ns) : ns[n] \in classes}

\* the cycles a synthetic graph is built with: A and B form one when both are
\* registered, C and D another
BuiltCycles(ns) ==
    {pair \in {{"CycleNodeA", "CycleNodeB"}, {"CycleNodeC", "CycleNodeD"}} :
        pair \subseteq SeqToSet(ns)}

\* the nodes a built cycle holds up: its own, and for the first cycle its consumer
HeldUp(ns) ==
    UNION {IdsOf(ns, IF "CycleNodeA" \in pair THEN pair \cup {"CycleConsumer"} ELSE pair) :
              pair \in BuiltCycles(ns)}

C13_BarriersMatchOrder ==
    compiled => barrierBatches = ComputeBarrierBatches(executionOrder, nodes)

\* C14: reset() on a compiled graph leaves it compiled, with the same execution order
\* and with every node id that was registered still registered
C14_ResetKeepsCompiledGraph ==
    (resetReport.called /\ resetReport.compiled) =>
        /\ compiled
        /\ executionOrder = resetReport.executionOrder
        /\ resetReport.nodeIds \subseteq NodeIds(nodes)

\* reset() has returned on a compiled graph of two nodes or more
C14_Witness ==
    /\ resetReport.called
    /\ resetReport.compiled
    /\ Len(resetReport.executionOrder) >= 2
    /\ executionOrder = resetReport.executionOrder

\* the queue a node class records into
UsesQueue(class, q) == IF q = "compute" THEN NodeClass[class].compute ELSE ~NodeClass[class].compute
\* what execute() returned in its ExecutionResult for a queue
UsedFlag(q) ==
    IF q = "compute" THEN execReport.computeCommandBufferUsed
    ELSE execReport.graphicsCommandBufferUsed

\* C21 as stated: execute() begins the command buffer of a queue if and only if at least
\* one registered node needs that queue, and the flags it returns say which were begun
C21_AsStated ==
    execReport.outcome # "none" =>
        \A q \in {"compute", "graphics"} :
            /\ cbBegun[q] = 1 <=> \E n \in NodeIds(nodes) : UsesQueue(nodes[n], q)
            /\ UsedFlag(q) <=> cbBegun[q] = 1

\* C21: execute() begins the command buffer of a queue, once, if and only if the graph
\* is compiled and at least one node of the execution order needs that queue, and the
\* flags it returns say exactly which command buffers were begun
C21_BeginsWhatOrderNeeds ==
    execReport.outcome # "none" =>
        \A q \in {"compute", "graphics"} :
            /\ cbBegun[q] \in {0, 1}
            /\ cbBegun[q] = 1 <=>
                  (compiled /\ \E k \in 1..Len(executionOrder) :
                                  UsesQueue(nodes[executionOrder[k]], q))
            /\ UsedFlag(q) <=> cbBegun[q] = 1

\* execute() has run a partially compiled graph: the order needs the compute queue only,
\* a skipped node is a graphics node
C21_Witness ==
    /\ execReport.outcome = "completed"
    /\ cbBegun = [compute |-> 1, graphics |-> 0]
    /\ execReport.computeCommandBufferUsed
    /\ ~execReport.graphicsCommandBufferUsed
    /\ \E n \in NodeIds(nodes) \ SeqToSet(executionOrder) : UsesQueue(nodes[n], "graphics")

(***************************************************************************)
(* Properties of the frame loop                                            *)
(***************************************************************************)
\* C5: when the node loop of execute() was aborted because the GPU is unhealthy, neither
\* the compute nor the graphics command buffer of that frame is submitted to a queue.
C5_NoSubmitAfterAbort ==
    execReport.outcome = "aborted" => submitted = {}

\* C10: when a frame resets the command buffers of slot s, the CPU has waited on every
\* fence handed to a queue submission by the most recent earlier frame on slot s, also
\* when that frame returned as failed after a submission.
C10_FencesWaitedBeforeReset ==
    resetLog.unwaited = {}

C10_Witness ==
    /\ resetLog.happened
    /\ resetLog.afterFailed
    /\ resetLog.unwaited = {}
    /\ frameCounter >= 1

\* C11: a slot whose last recorded use had graphicsUsed and not computeUsed is waited for
\* on its next use with the graphics in-flight fence and without the compute fence
C11_GraphicsOnlySlotWaitsGraphicsFence ==
    (fenceQuery.asked
        /\ fenceQuery.recorded = [computeUsed |-> FALSE, graphicsUsed |-> TRUE])
    => ("graphics" \in fenceQuery.fences /\ "compute" \notin fenceQuery.fences)

\* the second frame on a slot that recorded a graphics-only frame has waited
C11_Witness ==
    /\ rpc = "direct"
    /\ frameCounter >= MAX_FRAMES_IN_FLIGHT
    /\ fenceQuery.asked
    /\ fenceQuery.slot = currentFrame
    /\ fenceQuery.recorded = [computeUsed |-> FALSE, graphicsUsed |-> TRUE]
    /\ fenceQuery.fences = {"graphics"}

\* C15: once the frame graph is compiled, every later frame replays the same execution
\* order: no step of the frame loop changes it or the compiled flag, and directFrame
\* goes on to execute() without calling compile()
C15_CompiledOrderReplayed ==
    [][compiled =>
         /\ compiled'
         /\ executionOrder' = executionOrder
         /\ (rpc = "direct" /\ rpc' = "submitCompute") => compileReport'.path = "none"]_vars

\* a frame after the one that compiled the graph has been executed without compile()
C15_Witness ==
    /\ frameCounter >= 2
    /\ rpc = "submitCompute"
    /\ compiled
    /\ Len(executionOrder) = Len(DirectorNodes)
    /\ compileReport.path = "none"
    /\ execReport.outcome = "completed"

\* C20: initializeNode() has been invoked and has returned true on every node of the
\* execution order before a frame calls the node's prepareFrame, and once the graph is
\* compiled no frame invokes initializeNode() again
C20_InitializedOnceBeforeFrames ==
    [][/\ execReport'.outcome \in {"completed", "aborted"} =>
             SeqToSet(executionOrder') \subseteq initialized'
       /\ compiled =>
             /\ initialized' = initialized
             /\ (rpc = "direct" /\ rpc' = "submitCompute") => compileReport'.initInvoked = {}
      ]_vars

\* a later frame has run on the compiled graph and invoked no initializeNode()
C20_Witness ==
    /\ frameCounter >= 1
    /\ rpc = "submitCompute"
    /\ execReport.outcome = "completed"
    /\ compileReport.initInvoked = {}
    /\ initialized = SeqToSet(executionOrder)
    /\ initialized # {}

IssuesAcquire == acquiresOutstanding' > acquiresOutstanding

\* C27: vkAcquireNextImageKHR is never issued while acquisitionInProgress is set, the
\* flag is clear whenever acquireNextImage has returned, and at most one acquire is
\* outstanding at any time
C27_OneAcquireOutstanding ==
    [][/\ IssuesAcquire => ~acquisitionInProgress
       /\ acquisition'.returned => ~acquisitionInProgress'
       /\ acquiresOutstanding' <= 1]_vars

\* an acquire that was issued and failed has returned, and the guard is clear again
C27_Witness ==
    /\ acquisition.returned
    /\ acquisition.issued
    /\ acquisition.result = "VK_ERROR_DEVICE_LOST"
    /\ ~acquisitionInProgress
    /\ acquiresOutstanding = 0
    /\ nextResourceId > 1

\* the acquisition of the frame issued vkAcquireNextImageKHR, which reported one of rs
AcquireReported(rs) ==
    acquisition.returned /\ acquisition.issued /\ acquisition.result \in rs
\* the present of the frame reported one of rs
PresentReported(rs) ==
    presentation.returned /\ presentation.lastResult \in rs

\* C28 as stated: every acquisition and every present that reports out-of-date or
\* suboptimal yields a result whose recreation-needed flag is set
C28_AsStated ==
    /\ AcquireReported({"VK_ERROR_OUT_OF_DATE_KHR", "VK_SUBOPTIMAL_KHR"})
           => acquisition.recreationNeeded
    /\ PresentReported({"VK_ERROR_OUT_OF_DATE_KHR", "VK_SUBOPTIMAL_KHR"})
           => presentation.swapchainRecreationNeeded

\* C28, amended: an acquisition that reports out-of-date and a present that reports
\* out-of-date or suboptimal yield a result whose recreation-needed flag is set; an
\* acquisition that reports suboptimal yields a successful result with the flag clear;
\* none of them yields a plain failure (neither successful nor asking for recreation)
C28_RecreationSignalled ==
    /\ AcquireReported({"VK_ERROR_OUT_OF_DATE_KHR"})
           => acquisition.recreationNeeded /\ ~acquisition.success
    /\ AcquireReported({"VK_SUBOPTIMAL_KHR"})
           => acquisition.success /\ ~acquisition.recreationNeeded
    /\ PresentReported({"VK_ERROR_OUT_OF_DATE_KHR", "VK_SUBOPTIMAL_KHR"})
           => presentation.swapchainRecreationNeeded /\ presentation.success

\* a frame whose acquisition and whose present both reported suboptimal: the image was
\* rendered to, and the present asked for recreation
C28_Witness ==
    /\ AcquireReported({"VK_SUBOPTIMAL_KHR"})
    /\ acquisition.success /\ ~acquisition.recreationNeeded
    /\ PresentReported({"VK_SUBOPTIMAL_KHR"})
    /\ presentation.swapchainRecreationNeeded
    /\ spc = "recreate"

\* C30: since the last resetSwapchainCache, all frames that acquired image index i used
\* one and the same resource id for it, the id the cache holds, and the image of index i
\* was imported into the frame graph at most once
C30_StableImageIds ==
    \A i \in ImageIndices :
        /\ Cardinality(idsUsed[i]) <= 1
        /\ importsMade[i] <= 1
        /\ idsUsed[i] # {} => idsUsed[i] = {swapchainImageIds[i]} /\ importsMade[i] = 1

\* a frame has set up the frame graph with an id that an earlier frame imported: the id
\* is older than the last import made
C30_Witness ==
    /\ spc = "present"
    /\ swapchainImageId # 0
    /\ swapchainImageId < nextResourceId - 1
    /\ idsUsed[acquisition.imageIndex] = {swapchainImageId}
    /\ importsMade[acquisition.imageIndex] = 1

(***************************************************************************)
(* Properties of the cached pipeline                                       *)
(***************************************************************************)
\* the state of the cache: Built is dirty flag clear with non-null pipeline and layout
\* handles; with the flag set the node is Uninitialized until a first build, Dirty after
PipelineStateOf(dirty, pipeline, pipelineLayout) ==
    IF ~dirty
    THEN IF pipeline # 0 /\ pipelineLayout # 0 THEN "Built" ELSE "Invalid"
    ELSE IF pipeline = 0 /\ pipelineLayout = 0 THEN "Uninitialized" ELSE "Dirty"

PipelineState == PipelineStateOf(pipelineDirty, cachedPipeline, cachedPipelineLayout)

\* C29: every call leaves the cache Uninitialized, Built or Dirty and moves it only
\* along Uninitialized -> Built -> Dirty -> Built; execute() records a pipeline bind only
\* when the cache is Built; Built -> Dirty happens only in a call that saw a changed
\* layout or format handle or in invalidatePipelineCache(); a failed rebuild leaves the
\* dirty flag set and the cached handles as they were
C29_PipelineStateMachine ==
    [][/\ PipelineState' \in {"Uninitialized", "Built", "Dirty"}
       /\ PipelineState' # PipelineState =>
              <<PipelineState, PipelineState'>> \in
                  {<<"Uninitialized", "Built">>, <<"Built", "Dirty">>, <<"Dirty", "Built">>}
       /\ pipelineCall'.bound => pipelineCall'.op = "execute" /\ PipelineState' = "Built"
       /\ (PipelineState = "Built" /\ PipelineState' = "Dirty") =>
              pipelineCall'.op = "invalidatePipelineCache" \/ pipelineCall'.changed
       /\ pipelineCall'.rebuild = "failed" =>
              /\ pipelineDirty'
              /\ ~pipelineCall'.bound
              /\ <<cachedPipeline', cachedPipelineLayout', cachedRenderPass'>>
                     = <<cachedPipeline, cachedPipelineLayout, cachedRenderPass>>]_vars

\* a node that was built saw a changed handle, failed to rebuild and is Dirty
C29_Witness ==
    /\ pipelineCall.op = "execute"
    /\ pipelineCall.changed
    /\ pipelineCall.rebuild = "failed"
    /\ PipelineState = "Dirty"
    /\ cachedDescriptorLayout # 0

(***************************************************************************)
(* Properties of the chunk loop                                            *)
(***************************************************************************)
\* a step that is one iteration of the while loop of executeChunkedDispatch
ChunkIteration == dpc = "chunk" /\ dpc' = "chunk" /\ cmds' # cmds

\* C33: the chunked-dispatch loop terminates for every total, element count and ceiling
\* execute() can pass to it.  An iteration changes nothing of the loop's state but
\* processedWorkgroups, so the loop terminates exactly if every iteration increases
\* processedWorkgroups, which totalWorkgroups bounds.
C33_ChunkLoopTerminates ==
    [][ChunkIteration => processedWorkgroups' > processedWorkgroups]_vars

(***************************************************************************)
(* Properties of the global frame counter                                  *)
(***************************************************************************)
\* C31: the globalFrame values passed to FrameGraph::execute increase by exactly 1 from
\* each call to the next, so each is strictly greater than every earlier one, whether
\* or not frames failed before reaching execute() in between
C31_GlobalFrameIncreases ==
    /\ \A i \in 1..(Len(globalFrames) - 1) :
           U32Val(globalFrames[i + 1]) = U32Val(globalFrames[i]) + 1
    /\ \A i, j \in 1..Len(globalFrames) :
           i < j => U32Val(globalFrames[i]) < U32Val(globalFrames[j])

\* execute() was called a third time, after a frame that was given up before execute()
C31_Witness ==
    /\ Len(globalFrames) = 3
    /\ directFailures.beforeExecute
    /\ rpc = "submitCompute"
    /\ globalFrames[3] = U32Of(2)

(***************************************************************************)
(* Properties of the frame-in-flight index                                 *)
(***************************************************************************)
\* a step in which drawFrameModular() runs to its end
FrameCompletes == rpc = "finish" /\ rpc' = "start" /\ frameOutcome' = "success"

\* C32: currentFrame is always one of 0..MAX_FRAMES_IN_FLIGHT-1, a frame that runs to
\* completion advances it to (currentFrame + 1) mod MAX_FRAMES_IN_FLIGHT, and no other
\* step changes it
C32_FrameIndexCycles ==
    [][/\ currentFrame \in 0..(MAX_FRAMES_IN_FLIGHT - 1)
       /\ currentFrame' \in 0..(MAX_FRAMES_IN_FLIGHT - 1)
       /\ FrameCompletes => currentFrame' = (currentFrame + 1) % MAX_FRAMES_IN_FLIGHT
       /\ ~FrameCompletes => currentFrame' = currentFrame]_vars

\* the index has gone round: MAX_FRAMES_IN_FLIGHT frames have completed and the next
\* frame is on slot 0 again
C32_Witness ==
    /\ frameCounter = MAX_FRAMES_IN_FLIGHT
    /\ currentFrame = 0
    /\ frameOutcome = "success"


\* ---------------------------------------------------------------------------
\* Properties of the per-frame node lifecycle (C34)
\* ---------------------------------------------------------------------------

\* execute() has returned from a frame that entered the node loop
ExecuteReturned == fpc = "idle" /\ execReport.outcome \in {"completed", "aborted"}

\* C34: in every frame, each node whose prepareFrame was invoked also has
\* releaseFrame invoked before execute() returns, the frame in which the GPU is
\* found unhealthy right after that node's execute included.
C34_ReleaseFollowsPrepare ==
    ExecuteReturned =>
        \A i \in 1..Len(events) :
            events[i].call = "prepareFrame" =>
                \E j \in (i + 1)..Len(events) :
                    events[j] = Event("releaseFrame", events[i].node)


\* ---------------------------------------------------------------------------
\* Properties of the render pass of the graphics node (C35)
\* ---------------------------------------------------------------------------

\* commands of one kind recorded by the node
Recorded(op) == {k \in 1..Len(cmds) : cmds[k].op = op}

\* C35: every render pass begun by the graphics node's execute() is ended before
\* that execute() returns, on every return path, the missing graphics descriptor
\* set included.
C35_RenderPassEnded ==
    (dKind = "graphics" /\ dpc = "done") =>
        \A b \in Recorded("beginRenderPass") :
            \E e \in Recorded("endRenderPass") : e > b


\* ---------------------------------------------------------------------------
\* Properties of the fence wait at the start of a frame (C36)
\* ---------------------------------------------------------------------------

\* the fences the next drawFrameModular() hands to vkWaitForFences
FencesOfNextWait ==
    IF hasActiveFences(frameStates[currentFrame])
    THEN getFencesToWait(frameStates[currentFrame]) ELSE {}

\* C36: the fence wait at the start of a frame always completes: every fence it
\* waits on is still signaled or was handed to a successful queue submission
\* after its last reset; a failed submission never leaves a fence reset and
\* unsubmitted for a later frame on the same slot to wait on.
C36_FenceWaitCompletes ==
    rpc = "start" =>
        \A q \in FencesOfNextWait : fence[currentFrame][q] \in {"signaled", "pending"}


\* ---------------------------------------------------------------------------
\* Properties of swapchain recreation (C37)
\* ---------------------------------------------------------------------------

\* acquireNextImage returned a result that asks for recreation
RecreationAsked == acquisition.returned /\ acquisition.recreationNeeded
\* a frame acquired an image of a swapchain that is up to date
AcquiredAfterRecreation ==
    /\ acquisition.returned /\ acquisition.success
    /\ ~swapchainOutOfDate /\ ~framebufferResized

UploadStep == entityCall' # entityCall /\ entityCall'.op = "uploadPendingEntities"

\* C38: at all times activeEntityCount plus the number of staged entities is at
\* most MAX_ENTITIES; uploadPendingEntities increases activeEntityCount by exactly
\* the number of staged entities and leaves the staging area empty; the entity
\* count the compute nodes read never exceeds MAX_ENTITIES.
C38_EntityCapacity ==
    [][/\ activeEntityCount + stagingEntities <= MAX_ENTITIES
       /\ activeEntityCount' + stagingEntities' <= MAX_ENTITIES
       /\ activeEntityCount' <= MAX_ENTITIES
       /\ UploadStep => /\ activeEntityCount' = activeEntityCount + stagingEntities
                        /\ stagingEntities' = 0]_vars

\* an upload has filled the buffers to capacity after a batch was cut short
C38_Witness ==
    /\ entityCall.op = "uploadPendingEntities"
    /\ entityCall.calls = 4
    /\ activeEntityCount = MAX_ENTITIES
    /\ stagingEntities = 0

\* ---------------------------------------------------------------------------
\* Properties of the pipeline managers' recreation guard (C39)
\* ---------------------------------------------------------------------------

\* C39: the recreation-in-progress guard of the compute and of the graphics
\* pipeline manager is clear on every return from recreatePipelineCache, success
\* or failure, so that a later call recreates the cache instead of being skipped.
C39_GuardClearedOnReturn ==
    /\ \A m \in Managers : ~isRecreating_[m]
    /\ \A i \in 1..Len(recreateLog) : recreateLog[i].returned # "skipped"

====
